---- MODULE Spec2Model ----
(***************************************************************************)
(* Region1D / Region2D (seanofw/region2d): the 1-D span algebra and the    *)
(* 2-D band algebra built on it, as compiled in lib/region1d.js and        *)
(* lib/region2d.js.                                                        *)
(*                                                                         *)
(* Numbers are modelled as integers; -Infinity and +Infinity are the two   *)
(* sentinels NInf and PInf, which compare below and above every finite     *)
(* coordinate exactly as the IEEE infinities do.                           *)
(***************************************************************************)
EXTENDS Integers, Sequences, FiniteSets, TLC

\* ------------------------------------------------------------------------
\* Bounds of the model.

\* Largest finite coordinate of a 1-D span array (finite values 0..Max1).
Max1 == 2
\* Number of results that may be fed back as an operand of a 1-D operation.
MaxSteps1 == 1
\* Largest finite X and Y coordinate of a rectangle (finite values 0..Max).
MaxX == 1
MaxY == 1
\* Number of results that may be fed back as an operand of a 2-D operation.
MaxSteps == 1
\* Width of the significand of a number: integers up to 2^SignificandBits
\* are exact, larger ones are rounded (53 bits in the program's doubles).
SignificandBits == 2

\* ------------------------------------------------------------------------
\* Global constants of the program.

pInf == 1000
nInf == -1000

\* Number(v) of the model's arguments: NaN stands for every argument that is
\* not a number.
NaN == 5000

\* An array element whose typeof is not 'number' (a string, an object).
NonNumber == 6000

\* The finite 1-D coordinates and all 1-D coordinates.
Finite1 == 0..Max1
Coord1 == {nInf} \cup Finite1 \cup {pInf}

\* ------------------------------------------------------------------------
\* 32-bit integer arithmetic (x | 0, x & ~0).

\* ToInt32 of a number: the infinities and NaN become 0, an int32 stays as
\* it is.
ToInt32(x) == IF x = pInf \/ x = nInf \/ x = NaN THEN 0 ELSE x

TwoTo16 == 65536
TwoTo15 == 32768

\* hash *= 23; hash += v | 0; hash &= ~0  -- computed in 16-bit halves so
\* that no intermediate value exceeds the 32-bit range.
HashStep(hash, v) ==
    LET w   == ToInt32(v)
        lo  == (hash % TwoTo16) * 23 + (w % TwoTo16)
        hi  == (hash \div TwoTo16) * 23 + (w \div TwoTo16) + (lo \div TwoTo16)
        hi2 == ((hi + TwoTo15) % TwoTo16) - TwoTo15
    IN  hi2 * TwoTo16 + (lo % TwoTo16)

\* Bitwise operators on the (non-negative) depth counters.
RECURSIVE BitAnd(_, _)
BitAnd(a, b) ==
    IF a = 0 \/ b = 0 THEN 0
    ELSE (a % 2) * (b % 2) + 2 * BitAnd(a \div 2, b \div 2)

RECURSIVE BitOr(_, _)
BitOr(a, b) ==
    IF a = 0 THEN b
    ELSE IF b = 0 THEN a
    ELSE (IF a % 2 = 1 \/ b % 2 = 1 THEN 1 ELSE 0) + 2 * BitOr(a \div 2, b \div 2)

RECURSIVE BitXor(_, _)
BitXor(a, b) ==
    IF a = 0 THEN b
    ELSE IF b = 0 THEN a
    ELSE (IF a % 2 # b % 2 THEN 1 ELSE 0) + 2 * BitXor(a \div 2, b \div 2)

\* a & ~b : the bits of a that are not bits of b.
BitAndNot(a, b) == a - BitAnd(a, b)

\* ------------------------------------------------------------------------
\* Region1D: raw-data functions.

NullCoord == [x |-> 0, kind |-> 0, src |-> 0]

\* i & 1 ? -1 : +1 for the 0-based index i.
Kind(i) == IF i % 2 = 1 THEN -1 ELSE 1

\* makeCoordinateGenerator: the next lowest coordinate of the two arrays,
\* given the 0-based read positions i1 and i2 (the caller advances the
\* position of the source the coordinate came from).
getNext(array1, array2, i1, i2) ==
    IF i1 >= Len(array1) /\ i2 >= Len(array2) THEN NullCoord
    ELSE IF i1 >= Len(array1)
        THEN [x |-> array2[i2 + 1], kind |-> Kind(i2), src |-> 2]
    ELSE IF i2 >= Len(array2) \/ array1[i1 + 1] < array2[i2 + 1]
        THEN [x |-> array1[i1 + 1], kind |-> Kind(i1), src |-> 1]
    ELSE [x |-> array2[i2 + 1], kind |-> Kind(i2), src |-> 2]

\* The four combining functions passed to combineData.
unionOp(depth1, depth2) == BitOr(depth1, depth2)
\* A variant of the intersect function that ignores its second operand.
intersectOp_firstOnly(depth1, depth2) == BitAnd(depth1, depth1)
intersectOp(depth1, depth2) == BitAnd(depth1, depth2)
\* A variant of the xor function that computes an inclusive or.
xorOp_inclusive(depth1, depth2) == BitOr(depth1, depth2)
xorOp(depth1, depth2) == BitXor(depth1, depth2)
\* A variant of the subtract function with its operands swapped.
subtractOp_swapped(depth1, depth2) == BitAndNot(depth2, depth1)
subtractOp(depth1, depth2) == BitAndNot(depth1, depth2)

ApplyOp(op, depth1, depth2) ==
    CASE op = "union"     -> unionOp(depth1, depth2)
      [] op = "intersect" -> intersectOp(depth1, depth2)
      [] op = "xor"       -> xorOp(depth1, depth2)
      [] op = "subtract"  -> subtractOp(depth1, depth2)

\* The position after reading nextCoord from its source array.
advance(s, nextCoord) ==
    [s EXCEPT !.i1 = IF nextCoord.src = 1 THEN @ + 1 ELSE @,
              !.i2 = IF nextCoord.src = 2 THEN @ + 1 ELSE @,
              !.coord = nextCoord]

\* depth1 += kind or depth2 += kind, by the source of the coordinate.
addDepth(s, coord) ==
    [s EXCEPT !.depth1 = IF coord.src = 1 THEN @ + coord.kind ELSE @,
              !.depth2 = IF coord.src = 1 THEN @ ELSE @ + coord.kind]

\* A variant of the inner loop that does not coalesce coordinates at the
\* same x: every coordinate is a transition of its own.
sameX_nocoalesce(array1, array2, x, s) ==
    advance(s, getNext(array1, array2, s.i1, s.i2))

\* The inner while loop of combineData: fetch coordinates while they lie at
\* the same x as the current one, applying their deltas; the first
\* coordinate at another x (or null) is left in s.coord.
RECURSIVE sameX(_, _, _, _)
sameXStep(array1, array2, x, s, t) ==
    IF t.coord.src # 0 /\ t.coord.x = x
    THEN sameX(array1, array2, x, addDepth(t, t.coord))
    ELSE t

sameX(array1, array2, x, s) ==
    sameXStep(array1, array2, x, s, advance(s, getNext(array1, array2, s.i1, s.i2)))

\* The end of one pass: the new state, and the coordinate emitted when the
\* state changed.
emit(s, x, lastState, state) ==
    [s EXCEPT !.state = state,
              !.result = IF state # lastState THEN Append(@, x) ELSE @]

\* One pass of the do-while loop of combineData, repeated while a
\* coordinate is left.
RECURSIVE sweep(_, _, _, _)
sweepNext(array1, array2, op, s) ==
    IF s.coord.src # 0 THEN sweep(array1, array2, op, s) ELSE s.result

sweepState(array1, array2, op, x, lastState, s) ==
    sweepNext(array1, array2, op,
              emit(s, x, lastState, ApplyOp(op, s.depth1, s.depth2)))

sweep(array1, array2, op, s) ==
    sweepState(array1, array2, op, s.coord.x, s.state,
               sameX(array1, array2, s.coord.x, addDepth(s, s.coord)))

\* The state of the sweep after the first getNext().
sweepStart(coord) ==
    [i1 |-> IF coord.src = 1 THEN 1 ELSE 0,
     i2 |-> IF coord.src = 2 THEN 1 ELSE 0,
     depth1 |-> 0, depth2 |-> 0, state |-> 0,
     result |-> << >>, coord |-> coord]

\* combineData (1-D): the coordinate sweep over two sorted arrays.
combineData1(array1, array2, op) ==
    IF Len(array1) = 0 /\ Len(array2) = 0 THEN << >>
    ELSE sweep(array1, array2, op, sweepStart(getNext(array1, array2, 0, 0)))

unionData1(array1, array2) == combineData1(array1, array2, "union")
intersectData1(array1, array2) == combineData1(array1, array2, "intersect")
xorData1(array1, array2) == combineData1(array1, array2, "xor")
subtractData1(array1, array2) == combineData1(array1, array2, "subtract")

\* The while loop of notData: copy array[src .. length-2] (0-based).
RECURSIVE notCopy(_, _, _)
notCopy(array, src, newArray) ==
    IF src < Len(array) - 1
    THEN notCopy(array, src + 1, Append(newArray, array[src + 1]))
    ELSE [src |-> src, newArray |-> newArray]

\* The start of notData: skip a leading -Infinity or insert one.
notHead(array) ==
    IF array[1] # nInf THEN notCopy(array, 0, <<nInf>>)
    ELSE notCopy(array, 1, << >>)

\* The end of notData: drop a trailing +Infinity or append one.
notTail(array, c) ==
    IF array[c.src + 1] # pInf
    THEN Append(Append(c.newArray, array[c.src + 1]), pInf)
    ELSE c.newArray

\* notData: the complement of sorted 1-D data.
notData(array) ==
    IF Len(array) = 0 THEN <<nInf, pInf>>
    ELSE notTail(array, notHead(array))

\* arrayEquals (1-D): element-wise comparison.
arrayEquals1(array1, array2) ==
    /\ Len(array1) = Len(array2)
    /\ \A i \in 1..Len(array1) : array1[i] = array2[i]

\* makeHashCode: fold hash = hash*23 + (value | 0) over the array.
RECURSIVE hashFold(_, _, _)
hashFold(array, i, hash) ==
    IF i > Len(array) THEN hash
    ELSE hashFold(array, i + 1, HashStep(hash, array[i]))

makeHashCode(array) == hashFold(array, 1, 0)

\* validateData: TRUE iff the constructor accepts the (numeric) array.
validateData(array) ==
    /\ Len(array) % 2 = 0
    /\ \A i \in 2..Len(array) : ~(array[i] <= array[i - 1])

\* ------------------------------------------------------------------------
\* Region1D objects: the private data { array, hash } (min and max are
\* read off the array by getBounds1).

Region1D(array, hash) == [array |-> array, hash |-> hash]

\* new Region1D(array) / new Region1D(array, privateKey)
newRegion1D(array) == Region1D(array, makeHashCode(array))

\* Region1D.empty = new Region1D([], privateKey, 0)
empty1 == Region1D(<< >>, 0)

union1(r, other) == newRegion1D(unionData1(r.array, other.array))
intersect1(r, other) == newRegion1D(intersectData1(r.array, other.array))
subtract1(r, other) == newRegion1D(subtractData1(r.array, other.array))
xor1(r, other) == newRegion1D(xorData1(r.array, other.array))
not1(r) == newRegion1D(notData(r.array))
isEmpty1(r) == Len(r.array) = 0
getCount1(r) == Len(r.array) \div 2
getHashCode1(r) == r.hash
equals1(r, other) ==
    IF r.hash # other.hash THEN FALSE ELSE arrayEquals1(r.array, other.array)
getBounds1(r) ==
    [min |-> IF Len(r.array) > 0 THEN r.array[1] ELSE pInf,
     max |-> IF Len(r.array) > 0 THEN r.array[Len(r.array)] ELSE nInf]

Op1(op, r, other) ==
    CASE op = "union"     -> union1(r, other)
      [] op = "intersect" -> intersect1(r, other)
      [] op = "xor"       -> xor1(r, other)
      [] op = "subtract"  -> subtract1(r, other)

\* ------------------------------------------------------------------------
\* Region2D: the row-pair generator.

\* A variant of Math.max that returns its first argument.
Max_first(a, b) == a
\* Math.max(a, b)
Max(a, b) == IF a >= b THEN a ELSE b

\* One call of the generator returned by makeRowPairGenerator: g holds the
\* closure variables rowIndex1, rowIndex2 (0-based) and lastY.  The result
\* carries the pair (null: src "done") and the updated closure variables.
rowPairNext(rows1, rows2, g) ==
    IF g.rowIndex1 >= Len(rows1)
    THEN IF g.rowIndex2 >= Len(rows2)
         THEN [done |-> TRUE, pair |-> [row1 |-> empty1, row2 |-> empty1, minY |-> 0, maxY |-> 0], g |-> g]
         ELSE LET r2 == rows2[g.rowIndex2 + 1]
              IN  [done |-> FALSE,
                   pair |-> [row1 |-> empty1, row2 |-> r2.region,
                             minY |-> Max(r2.minY, g.lastY), maxY |-> r2.maxY],
                   g |-> [g EXCEPT !.lastY = r2.maxY, !.rowIndex2 = @ + 1]]
    ELSE IF g.rowIndex2 >= Len(rows2)
    THEN LET r1x == rows1[g.rowIndex1 + 1]
         IN  [done |-> FALSE,
              pair |-> [row1 |-> r1x.region, row2 |-> empty1,
                        minY |-> Max(r1x.minY, g.lastY), maxY |-> r1x.maxY],
              g |-> [g EXCEPT !.lastY = r1x.maxY, !.rowIndex1 = @ + 1]]
    ELSE
    LET row1 == rows1[g.rowIndex1 + 1]
        row2 == rows2[g.rowIndex2 + 1]
        nextY1 == Max(row1.minY, g.lastY)
        nextY2 == Max(row2.minY, g.lastY)
    IN  IF nextY1 = nextY2
        THEN \* matching top edge
             IF row2.maxY < row1.maxY
             THEN [done |-> FALSE,
                   pair |-> [row1 |-> row1.region, row2 |-> row2.region,
                             minY |-> nextY1, maxY |-> row2.maxY],
                   g |-> [g EXCEPT !.lastY = row2.maxY, !.rowIndex2 = @ + 1]]
             ELSE IF row2.maxY = row1.maxY
             THEN [done |-> FALSE,
                   pair |-> [row1 |-> row1.region, row2 |-> row2.region,
                             minY |-> nextY1, maxY |-> row1.maxY],
                   g |-> [g EXCEPT !.lastY = row1.maxY,
                                   !.rowIndex1 = @ + 1, !.rowIndex2 = @ + 1]]
             ELSE [done |-> FALSE,
                   pair |-> [row1 |-> row1.region, row2 |-> row2.region,
                             minY |-> nextY1, maxY |-> row1.maxY],
                   g |-> [g EXCEPT !.lastY = row1.maxY, !.rowIndex1 = @ + 1]]
        ELSE IF nextY1 < nextY2
        THEN \* the A-side row is strictly above the B-side row
             IF nextY2 >= row1.maxY
             THEN [done |-> FALSE,
                   pair |-> [row1 |-> row1.region, row2 |-> empty1,
                             minY |-> nextY1, maxY |-> row1.maxY],
                   g |-> [g EXCEPT !.lastY = row1.maxY, !.rowIndex1 = @ + 1]]
             ELSE [done |-> FALSE,
                   pair |-> [row1 |-> row1.region, row2 |-> empty1,
                             minY |-> nextY1, maxY |-> nextY2],
                   g |-> [g EXCEPT !.lastY = nextY2]]
        ELSE \* the B-side row is strictly above the A-side row
             IF nextY1 >= row2.maxY
             THEN [done |-> FALSE,
                   pair |-> [row1 |-> empty1, row2 |-> row2.region,
                             minY |-> nextY2, maxY |-> row2.maxY],
                   g |-> [g EXCEPT !.lastY = row2.maxY, !.rowIndex2 = @ + 1]]
             ELSE [done |-> FALSE,
                   pair |-> [row1 |-> empty1, row2 |-> row2.region,
                             minY |-> nextY2, maxY |-> nextY1],
                   g |-> [g EXCEPT !.lastY = nextY1]]

\* makeRowPairGenerator: the initial closure variables.
makeRowPairGenerator == [rowIndex1 |-> 0, rowIndex2 |-> 0, lastY |-> nInf]

\* The pairs the generator yields until it returns null, as the for loop
\* of combineData receives them.
RECURSIVE collectPairs(_, _, _, _)
collectPairs(rows1, rows2, t, pairs) ==
    IF t.done THEN pairs
    ELSE collectPairs(rows1, rows2, rowPairNext(rows1, rows2, t.g),
                      Append(pairs, t.pair))

rowPairs(rows1, rows2) ==
    collectPairs(rows1, rows2,
                 rowPairNext(rows1, rows2, makeRowPairGenerator), << >>)

\* ------------------------------------------------------------------------
\* Region2D: combining two band lists.

\* A variant of the merge test that never merges.
mergesWithLast_never(acc, resultRow, pair) == FALSE

\* The merge test of combineData: the new row equals the last emitted row
\* and is immediately adjacent to it.
mergesWithLast(acc, resultRow, pair) ==
    /\ Len(acc.result) > 0
    /\ equals1(resultRow, acc.result[Len(acc.result)].region)
    /\ acc.result[Len(acc.result)].maxY = pair.minY

\* The new band and the metadata updates of combineData.
pushRow(acc, pair, resultRow, rowBounds) ==
    [result |-> Append(acc.result,
                       [region |-> resultRow,
                        minY |-> pair.minY, maxY |-> pair.maxY]),
     count |-> acc.count + getCount1(resultRow),
     minX |-> IF rowBounds.min < acc.minX THEN rowBounds.min ELSE acc.minX,
     maxX |-> IF rowBounds.max > acc.maxX THEN rowBounds.max ELSE acc.maxX,
     hash |-> HashStep(acc.hash, getHashCode1(resultRow))]

\* The body of the for loop of combineData, given the transformed row.
combineRow(acc, pair, resultRow) ==
    IF isEmpty1(resultRow) THEN acc
    ELSE IF mergesWithLast(acc, resultRow, pair)
    THEN [acc EXCEPT !.result[Len(acc.result)].maxY = pair.maxY]
    ELSE pushRow(acc, pair, resultRow, getBounds1(resultRow))

\* The body of the for loop of combineData for one pair of rows.
combineStep(acc, pair, op) ==
    combineRow(acc, pair, Op1(op, pair.row1, pair.row2))

\* The for loop of combineData: one generator call per pass.
RECURSIVE combineLoop(_, _, _, _, _)
combineNext(array1, array2, op, acc, nx) ==
    IF nx.done THEN acc
    ELSE combineLoop(array1, array2, op, nx.g, combineStep(acc, nx.pair, op))

combineLoop(array1, array2, op, g, acc) ==
    combineNext(array1, array2, op, acc, rowPairNext(array1, array2, g))

\* The region data combineData returns for the collected rows.
newRegionData(acc) ==
    [array |-> acc.result,
     count |-> acc.count,
     minX |-> acc.minX,
     minY |-> IF Len(acc.result) > 0 THEN acc.result[1].minY ELSE pInf,
     maxX |-> acc.maxX,
     maxY |-> IF Len(acc.result) > 0 THEN acc.result[Len(acc.result)].maxY ELSE nInf,
     hash |-> acc.hash]

\* combineData (2-D): the parallel band sweep and the metadata.
combineData2(array1, array2, op) ==
    newRegionData(combineLoop(array1, array2, op, makeRowPairGenerator,
                              [result |-> << >>, count |-> 0,
                               minX |-> pInf, maxX |-> nInf, hash |-> 0]))

unionData2(array1, array2) == combineData2(array1, array2, "union")
intersectData2(array1, array2) == combineData2(array1, array2, "intersect")
xorData2(array1, array2) == combineData2(array1, array2, "xor")
subtractData2(array1, array2) == combineData2(array1, array2, "subtract")

\* A variant of doBoundsOverlap with one comparison against the wrong field
\* (data2.maxX where data2.minX is meant).
doBoundsOverlap_wrongField(data1, data2) ==
    ~(data1.minX > data2.maxX \/ data1.maxX < data2.maxX
      \/ data1.minY > data2.maxY \/ data1.maxY < data2.minY)

doBoundsOverlap(data1, data2) ==
    ~(data1.minX > data2.maxX \/ data1.maxX < data2.minX
      \/ data1.minY > data2.maxY \/ data1.maxY < data2.minY)

\* The region data of a single rectangle with the given row.
oneRectData(minX, minY, maxX, maxY, region1D) ==
    [array |-> <<[region |-> region1D, minY |-> minY, maxY |-> maxY]>>,
     count |-> 1,
     minX |-> minX, minY |-> minY, maxX |-> maxX, maxY |-> maxY,
     hash |-> getHashCode1(region1D)]

\* makeRegionDataFromOneRect for the array form [x1, y1, x2, y2] of a
\* rectangle that passes the size validation.
makeRegionDataFromOneRect(rect) ==
    oneRectData(rect[1], rect[2], rect[3], rect[4],
                newRegion1D(<<rect[1], rect[3]>>))

\* The size validation of makeRegionDataFromOneRect.
rectIsValid(rect) == ~(rect[3] <= rect[1] \/ rect[4] <= rect[2])

makeEmptyRegionData ==
    [array |-> << >>, count |-> 0,
     minX |-> pInf, minY |-> pInf, maxX |-> nInf, maxY |-> nInf, hash |-> 0]

\* Region2D.infinite and Region2D.empty
infinite == makeRegionDataFromOneRect(<<nInf, nInf, pInf, pInf>>)
empty == makeEmptyRegionData

\* Region2D.prototype: the CSG methods (this = data).
union2(data, otherData) == unionData2(data.array, otherData.array)

intersect2(data, otherData) ==
    IF ~doBoundsOverlap(data, otherData) THEN empty
    ELSE intersectData2(data.array, otherData.array)

subtract2(data, otherData) ==
    IF ~doBoundsOverlap(data, otherData) THEN data
    ELSE subtractData2(data.array, otherData.array)

xor2(data, otherData) == xorData2(data.array, otherData.array)

\* A variant of not that complements by subtracting from the bounding box.
not2_withinBounds(data) ==
    IF Len(data.array) = 0 THEN infinite
    ELSE subtractData2(
           makeRegionDataFromOneRect(<<data.minX, data.minY, data.maxX, data.maxY>>).array,
           data.array)

not2(data) == xorData2(data.array, infinite.array)

\* ------------------------------------------------------------------------
\* Region2D: predicates.  A call that fails with a TypeError (reading a
\* property of undefined, calling a method an object does not have) returns
\* the outcome "TypeError"; a call that returns yields "true" or "false".

Bool(b) == IF b THEN "true" ELSE "false"

\* isPointInData (1-D), for the integer model coordinates.
RECURSIVE bsearch1(_, _, _, _, _)
\* A variant of the binary search that stops before its first probe.
bsearch1_noProbe(array, x, start, end, index) == index
bsearch1(array, x, start, end, index) ==
    IF start < end
    THEN LET midpt == (start + end) \div 2
             value == array[midpt + 1]
         IN  IF x = value THEN midpt
             ELSE IF x < value THEN bsearch1(array, x, start, midpt, index)
             ELSE bsearch1(array, x, midpt + 1, end, midpt)
    ELSE index

isPointInData1(array, x) ==
    IF Len(array) = 0 THEN FALSE
    ELSE IF x < array[1] \/ x > array[Len(array)] THEN FALSE
    ELSE IF Len(array) <= 8
    THEN \E i \in {k \in 0..(Len(array) - 1) : k % 2 = 0} :
            x >= array[i + 1] /\ x < array[i + 2]
    ELSE bsearch1(array, x, 0, Len(array), 0) % 2 = 0

isPointIn1(r, x) == isPointInData1(r.array, x)

\* The linear scan of isPointInData (2-D): for (i = 0; i < l; i += 2).
RECURSIVE linearScan2(_, _, _, _)
linearScan2(array, x, y, i) ==
    IF i < Len(array)
    THEN IF y >= array[i + 1].minY /\ y < array[i + 1].maxY
         THEN isPointIn1(array[i + 1].region, x)
         ELSE linearScan2(array, x, y, i + 2)
    ELSE FALSE

\* The binary search of isPointInData (2-D).
RECURSIVE bsearch2(_, _, _, _, _)
bsearch2(array, x, y, start, end) ==
    IF start < end
    THEN LET midpt == (start + end) \div 2
             row == array[midpt + 1]
         IN  IF y >= row.minY /\ y < row.maxY THEN isPointIn1(row.region, x)
             ELSE IF y < row.minY THEN bsearch2(array, x, y, start, midpt)
             ELSE bsearch2(array, x, y, midpt + 1, end)
    ELSE FALSE

isPointInData2(data, x, y) ==
    LET array == data.array
    IN  IF Len(array) = 0 THEN FALSE
        ELSE IF y < data.minY \/ y > data.maxY
                \/ x < data.minX \/ x > data.maxX THEN FALSE
        ELSE IF Len(array) <= 5 THEN linearScan2(array, x, y, 0)
        ELSE bsearch2(array, x, y, 0, Len(array))

\* Region2D.prototype.isPointIn
isPointIn2(data, x, y) == Bool(isPointInData2(data, x, y))

\* arrayEquals (2-D): it calls array1[i].equals(array2[i]) on the band
\* objects { region, minY, maxY }, which have no equals method, so the first
\* pass of the loop fails with a TypeError.
arrayEquals2(array1, array2) ==
    IF Len(array1) # Len(array2) THEN "false"
    ELSE IF Len(array1) > 0 THEN "TypeError"
    ELSE "true"

\* Region2D.prototype.equals
equals2(data, otherData) ==
    IF data.hash # otherData.hash \/ data.count # otherData.count THEN "false"
    ELSE arrayEquals2(data.array, otherData.array)

\* doesIntersectData(data1, data2), data2 possibly undefined: reading
\* data2.array of undefined fails with a TypeError.
doesIntersectData2(data1, data2) ==
    IF data2.undefined THEN "TypeError"
    ELSE Bool(Len(intersectData2(data1.array, data2.data.array).array) # 0)

\* Region2D.prototype.doesIntersect: doesIntersectData(getData(this)), the
\* second argument is not passed.
doesIntersect2(data, otherData) ==
    doesIntersectData2(data, [undefined |-> TRUE, data |-> empty])

\* ------------------------------------------------------------------------
\* State.

VARIABLES
    a1,      \* Region1D: the receiver of the 1-D operations
    b1,      \* Region1D: the argument of the 1-D operations
    r1,      \* Region1D: the result of the last 1-D operation
    op1,     \* name of the last 1-D operation ("new" before the first,
             \* "keep" once its result has become an operand)
    n1,      \* number of 1-D results fed back as operands so far
    ra,      \* Region2D data: the receiver of the 2-D operations
    rb,      \* Region2D data: the argument of the 2-D operations
    res,     \* Region2D data: the result of the last 2-D operation
    res2,    \* Region2D data: the second result of a two-sided computation
    op,      \* name of the last 2-D operation ("new", "keep" as for op1)
    steps,   \* number of 2-D results fed back as operands so far
    ret,     \* outcome of the last predicate call ("none" before the first)
    px,      \* the point passed to isPointIn
    py,
    path,    \* the polygons the last getPath call returned
    arg,     \* the arguments of the last transform, translate, scale or
             \* fromRows call; the rows the last getRawRows call returned
    heap     \* the band objects { region, minY, maxY } created so far, and
             \* the band arrays of Region2D.infinite, of the receiver, of
             \* the argument and of the last result as lists of references

vars1 == <<a1, b1, r1, op1, n1>>
vars2 == <<ra, rb, res, res2, op, steps>>
varsQ == <<ret, px, py, path, arg, heap>>
vars ==
    <<a1, b1, r1, op1, n1, ra, rb, res, res2, op, steps, ret, px, py, path,
      arg, heap>>

Idle1 == a1 = empty1 /\ b1 = empty1 /\ r1 = empty1 /\ op1 = "new" /\ n1 = 0
Idle2 ==
    /\ ra = empty /\ rb = empty /\ res = empty /\ res2 = empty
    /\ op = "new" /\ steps = 0
NoHeap ==
    [bands |-> << >>, infinite |-> << >>, a |-> << >>, b |-> << >>, r |-> << >>]
IdleQ ==
    /\ ret = "none" /\ px = 0 /\ py = 0 /\ path = << >> /\ arg = << >>
    /\ heap = NoHeap

\* ------------------------------------------------------------------------
\* The 1-D specification: regions built by the constructor, combined by
\* union, intersect, xor, subtract and not, results fed back as operands.

\* All strictly ascending sequences over a finite set of integers.
RECURSIVE Ascending(_)
Ascending(S) ==
    IF S = {} THEN {<< >>}
    ELSE LET m == CHOOSE v \in S : \A w \in S : w <= v
             rest == Ascending(S \ {m})
         IN  rest \cup {Append(q, m) : q \in rest}

\* The arrays the constructor accepts, over the model's coordinates.
ValidArrays1 == {q \in Ascending(Coord1) : validateData(q)}

Init1D ==
    /\ a1 \in {newRegion1D(q) : q \in ValidArrays1}
    /\ b1 \in {newRegion1D(q) : q \in ValidArrays1}
    /\ r1 = empty1
    /\ op1 = "new"
    /\ n1 = 0
    /\ Idle2 /\ IdleQ

Union1D ==
    /\ r1' = union1(a1, b1) /\ op1' = "union"
    /\ UNCHANGED <<a1, b1, n1, vars2, varsQ>>

Intersect1D ==
    /\ r1' = intersect1(a1, b1) /\ op1' = "intersect"
    /\ UNCHANGED <<a1, b1, n1, vars2, varsQ>>

Xor1D ==
    /\ r1' = xor1(a1, b1) /\ op1' = "xor"
    /\ UNCHANGED <<a1, b1, n1, vars2, varsQ>>

Subtract1D ==
    /\ r1' = subtract1(a1, b1) /\ op1' = "subtract"
    /\ UNCHANGED <<a1, b1, n1, vars2, varsQ>>

Not1D ==
    /\ r1' = not1(a1) /\ op1' = "not"
    /\ UNCHANGED <<a1, b1, n1, vars2, varsQ>>

\* a.not().not()
NotNot1D ==
    /\ r1' = not1(not1(a1)) /\ op1' = "notnot"
    /\ UNCHANGED <<a1, b1, n1, vars2, varsQ>>

\* The caller keeps the result and uses it as the next receiver / argument.
KeepAsA1D ==
    /\ op1 \in {"union", "intersect", "xor", "subtract", "not"}
    /\ n1 < MaxSteps1
    /\ a1' = r1 /\ n1' = n1 + 1 /\ op1' = "keep"
    /\ UNCHANGED <<b1, r1, vars2, varsQ>>

KeepAsB1D ==
    /\ op1 \in {"union", "intersect", "xor", "subtract", "not"}
    /\ n1 < MaxSteps1
    /\ b1' = r1 /\ n1' = n1 + 1 /\ op1' = "keep"
    /\ UNCHANGED <<a1, r1, vars2, varsQ>>

Next1D ==
    \/ Union1D \/ Intersect1D \/ Xor1D \/ Subtract1D \/ Not1D \/ NotNot1D
    \/ KeepAsA1D \/ KeepAsB1D

Spec1D == Init1D /\ [][Next1D]_vars

\* ------------------------------------------------------------------------
\* The 2-D specification: regions built by the constructor (Region2D.empty
\* and Region2D.infinite among them), combined by union, intersect,
\* subtract, xor and not, results fed back as operands.

CoordX == {nInf} \cup (0..MaxX) \cup {pInf}
CoordY == {nInf} \cup (0..MaxY) \cup {pInf}

\* The rectangles [x1, y1, x2, y2] the constructor accepts.
ValidRects ==
    {rect \in CoordX \X CoordY \X CoordX \X CoordY : rectIsValid(rect)}

\* new Region2D(), new Region2D(rect)
NewRegions2 == {empty} \cup {makeRegionDataFromOneRect(rect) : rect \in ValidRects}

Init ==
    /\ ra \in NewRegions2
    /\ rb \in NewRegions2
    /\ res = empty /\ res2 = empty
    /\ op = "new" /\ steps = 0
    /\ Idle1 /\ IdleQ

Union2D ==
    /\ res' = union2(ra, rb) /\ op' = "union"
    /\ UNCHANGED <<ra, rb, res2, steps, vars1, varsQ>>

Intersect2D ==
    /\ res' = intersect2(ra, rb) /\ op' = "intersect"
    /\ UNCHANGED <<ra, rb, res2, steps, vars1, varsQ>>

Subtract2D ==
    /\ res' = subtract2(ra, rb) /\ op' = "subtract"
    /\ UNCHANGED <<ra, rb, res2, steps, vars1, varsQ>>

Xor2D ==
    /\ res' = xor2(ra, rb) /\ op' = "xor"
    /\ UNCHANGED <<ra, rb, res2, steps, vars1, varsQ>>

Not2D ==
    /\ res' = not2(ra) /\ op' = "not"
    /\ UNCHANGED <<ra, rb, res2, steps, vars1, varsQ>>

\* a.union(b).not() and a.not().intersect(b.not())
DeMorgan2D ==
    /\ res' = not2(union2(ra, rb))
    /\ res2' = intersect2(not2(ra), not2(rb))
    /\ op' = "demorgan"
    /\ UNCHANGED <<ra, rb, steps, vars1, varsQ>>

\* a.not().not()
NotNot2D ==
    /\ res' = not2(not2(ra)) /\ op' = "notnot"
    /\ UNCHANGED <<ra, rb, res2, steps, vars1, varsQ>>

\* The caller keeps the result and uses it as the next receiver / argument.
KeepAsA2D ==
    /\ op \in {"union", "intersect", "subtract", "xor", "not"}
    /\ steps < MaxSteps
    /\ ra' = res /\ steps' = steps + 1 /\ op' = "keep" /\ res2' = empty
    /\ UNCHANGED <<rb, res, vars1, varsQ>>

KeepAsB2D ==
    /\ op \in {"union", "intersect", "subtract", "xor", "not"}
    /\ steps < MaxSteps
    /\ rb' = res /\ steps' = steps + 1 /\ op' = "keep" /\ res2' = empty
    /\ UNCHANGED <<ra, res, vars1, varsQ>>

Next ==
    \/ Union2D \/ Intersect2D \/ Subtract2D \/ Xor2D \/ Not2D
    \/ DeMorgan2D \/ NotNot2D
    \/ KeepAsA2D \/ KeepAsB2D

Spec == Init /\ [][Next]_vars

\* Both types together: a run works on Region1D values or on Region2D values.
NextAll ==
    \/ (op1 = "new" /\ a1 = empty1 /\ b1 = empty1 /\ Next)
    \/ (op = "new" /\ ra = empty /\ rb = empty /\ Next1D)

SpecAll == (Init \/ Init1D) /\ [][NextAll]_vars

\* ------------------------------------------------------------------------
\* The predicate specification: regions built by the constructor and by
\* union and subtract, then queried by isPointIn, equals and doesIntersect.

ProbeX == (0 - 1)..(MaxX + 1)
ProbeY == (0 - 1)..(MaxY + 1)

IsPointIn2D ==
    /\ op \in {"new", "keep"}
    /\ \E x \in ProbeX, y \in ProbeY :
          /\ px' = x /\ py' = y
          /\ ret' = isPointIn2(ra, x, y)
    /\ op' = "isPointIn"
    /\ UNCHANGED <<ra, rb, res, res2, steps, path, arg, heap, vars1>>

Equals2D ==
    /\ op \in {"new", "keep"}
    /\ ret' = equals2(ra, rb)
    /\ op' = "equals"
    /\ UNCHANGED <<ra, rb, res, res2, steps, px, py, path, arg, heap, vars1>>

DoesIntersect2D ==
    /\ op \in {"new", "keep"}
    /\ ret' = doesIntersect2(ra, rb)
    /\ op' = "doesIntersect"
    /\ UNCHANGED <<ra, rb, res, res2, steps, px, py, path, arg, heap, vars1>>

\* The predicates change no region, so each run builds its regions first and
\* ends with one predicate call.
NextQ ==
    \/ (ret = "none" /\ Union2D)
    \/ (ret = "none" /\ Subtract2D)
    \/ (ret = "none" /\ KeepAsA2D)
    \/ IsPointIn2D \/ Equals2D \/ DoesIntersect2D

SpecQ == Init /\ [][NextQ]_vars

\* ------------------------------------------------------------------------
\* Rectangles: getRects and fromRects.

\* a - b for two numbers that are not the same infinity.
Sub(a, b) ==
    IF a = pInf \/ b = nInf THEN pInf
    ELSE IF a = nInf \/ b = pInf THEN nInf
    ELSE a - b

\* makeRects (1-D): one rectangle per span, appended to result.
RECURSIVE makeRects1(_, _, _, _, _)
makeRects1(array, minY, maxY, i, result) ==
    IF i < Len(array)
    THEN makeRects1(array, minY, maxY, i + 2,
             Append(result,
                    [x |-> array[i + 1], y |-> minY,
                     width |-> Sub(array[i + 2], array[i + 1]),
                     height |-> Sub(maxY, minY),
                     left |-> array[i + 1], top |-> minY,
                     right |-> array[i + 2], bottom |-> maxY]))
    ELSE result

\* Region1D.prototype.getAsRects
getAsRects(r, minY, maxY, destArray) ==
    makeRects1(r.array, minY, maxY, 0, destArray)

\* makeRects (2-D): the rectangles of every row, in band order.
RECURSIVE makeRects2(_, _, _)
makeRects2(array, i, result) ==
    IF i < Len(array)
    THEN makeRects2(array, i + 1,
             getAsRects(array[i + 1].region, array[i + 1].minY,
                        array[i + 1].maxY, result))
    ELSE result

\* Region2D.prototype.getRects
getRects(data) == makeRects2(data.array, 0, << >>)

\* makeRegionDataFromOneRect for a rectangle object with left, top, right
\* and bottom properties that passes the size validation.
makeRegionDataFromRectObject(rect) ==
    oneRectData(rect.left, rect.top, rect.right, rect.bottom,
                newRegion1D(<<rect.left, rect.right>>))

\* The size validation of makeRegionDataFromOneRect for such an object.
rectObjectIsValid(rect) ==
    ~(rect.right <= rect.left \/ rect.bottom <= rect.top)

\* The loop of fromRects: region = region.union(new Region2D(rects[i])).
RECURSIVE fromRectsLoop(_, _, _)
fromRectsLoop(rects, i, region) ==
    IF i < Len(rects)
    THEN fromRectsLoop(rects, i + 1,
             union2(region, makeRegionDataFromRectObject(rects[i + 1])))
    ELSE region

\* A variant of fromRects whose loop never runs.
fromRects_firstOnly(rects) ==
    IF Len(rects) = 0 THEN empty
    ELSE makeRegionDataFromRectObject(rects[1])

\* Region2D.fromRects
fromRects(rects) ==
    IF Len(rects) = 0 THEN empty
    ELSE fromRectsLoop(rects, 1, makeRegionDataFromRectObject(rects[1]))

\* ------------------------------------------------------------------------
\* Transformations.  A call returns a record whose error field is "none"
\* when it returns a value, and the thrown error otherwise.

\* nInf < v && v < pInf: false for the infinities and for NaN.
isFiniteNumber(v) == v # NaN /\ nInf < v /\ v < pInf

\* The first integer with an inexact successor (2^53 in the program).
FirstInexact == 2 ^ SignificandBits

\* Rounding of a non-negative integer to the nearest number with a
\* significand of SignificandBits bits, ties to the even significand.
RECURSIVE roundToStep(_, _)
roundToStep(v, step) ==
    IF v <= FirstInexact * step
    THEN IF 2 * (v % step) < step THEN (v \div step) * step
         ELSE IF 2 * (v % step) > step THEN ((v \div step) + 1) * step
         ELSE IF (v \div step) % 2 = 0 THEN (v \div step) * step
         ELSE ((v \div step) + 1) * step
    ELSE roundToStep(v, 2 * step)

\* The number an arithmetic operation with the exact result v produces.
rounded(v) == IF v < 0 THEN 0 - roundToStep(0 - v, 1) ELSE roundToStep(v, 1)

\* x * ratio + delta for a finite non-zero ratio and a finite delta: the
\* product is rounded, then the sum.
scaleAndShift(x, ratio, delta) ==
    IF x = pInf THEN (IF ratio > 0 THEN pInf ELSE nInf)
    ELSE IF x = nInf THEN (IF ratio > 0 THEN nInf ELSE pInf)
    ELSE rounded(rounded(x * ratio) + delta)

\* transformData (1-D)
transformData1(array, ratio, delta) ==
    IF ~isFiniteNumber(delta)
    THEN [error |-> "Invalid translation delta", array |-> << >>]
    ELSE IF ~isFiniteNumber(ratio) \/ ratio = 0
    THEN [error |-> "Invalid scale ratio", array |-> << >>]
    ELSE [error |-> "none",
          array |-> [i \in 1..Len(array) |->
                        scaleAndShift(array[i], ratio, delta)]]

\* new Region1D(array) without the private key: the data is validated.
validatedRegion1D(t) ==
    IF t.error # "none" THEN [error |-> t.error, region |-> empty1]
    ELSE IF ~validateData(t.array)
    THEN [error |-> IF Len(t.array) % 2 = 1 THEN "Type error" ELSE "Data error",
          region |-> empty1]
    ELSE [error |-> "none", region |-> newRegion1D(t.array)]

\* Region1D.prototype.transform, translate and scale
transform1(r, scale, offset) ==
    validatedRegion1D(transformData1(r.array, scale, offset))
translate1(r, offset) ==
    validatedRegion1D(transformData1(r.array, 1, offset))
scale1(r, scale) ==
    validatedRegion1D(transformData1(r.array, scale, 0))

\* The loop of transformData (2-D): a row whose region.transform throws
\* ends the call with that error.
RECURSIVE transformRows(_, _, _, _, _, _, _)
transformRow(array, ratioX, ratioY, deltaX, deltaY, i, newArray, t) ==
    IF t.error # "none" THEN [error |-> t.error, array |-> << >>]
    ELSE transformRows(array, ratioX, ratioY, deltaX, deltaY, i + 1,
             Append(newArray,
                    [region |-> t.region,
                     minY |-> scaleAndShift(array[i + 1].minY, ratioY, deltaY),
                     maxY |-> scaleAndShift(array[i + 1].maxY, ratioY, deltaY)]))

transformRows(array, ratioX, ratioY, deltaX, deltaY, i, newArray) ==
    IF i < Len(array)
    THEN transformRow(array, ratioX, ratioY, deltaX, deltaY, i, newArray,
                      transform1(array[i + 1].region, ratioX, deltaX))
    ELSE [error |-> "none", array |-> newArray]

\* transformData (2-D)
transformData2(array, ratioX, ratioY, deltaX, deltaY) ==
    IF ~isFiniteNumber(deltaX) \/ ~isFiniteNumber(deltaY)
    THEN [error |-> "Invalid translation delta", array |-> << >>]
    ELSE IF ~isFiniteNumber(ratioX) \/ ratioX = 0
            \/ ~isFiniteNumber(ratioY) \/ ratioY = 0
    THEN [error |-> "Invalid scale ratio", array |-> << >>]
    ELSE transformRows(array, ratioX, ratioY, deltaX, deltaY, 0, << >>)

\* ------------------------------------------------------------------------
\* Regions from raw rows.

\* The check of one band in makeDataFromRows; prevMax is set to nInf before
\* the loop and never assigned again.
bandIsInvalid(band, prevMax) ==
    band.minY < prevMax \/ band.minY >= band.maxY

\* A variant of collectBand whose hash is the sum of the row hashes.
collectBand_sumOfHashes(acc, band, bounds) ==
    [array |-> Append(acc.array, band),
     count |-> acc.count + getCount1(band.region),
     minX |-> IF bounds.min < acc.minX THEN bounds.min ELSE acc.minX,
     maxX |-> IF bounds.max > acc.maxX THEN bounds.max ELSE acc.maxX,
     hash |-> ToInt32(acc.hash + getHashCode1(band.region))]

\* The statistics makeDataFromRows collects for one band.
collectBand(acc, band, bounds) ==
    [array |-> Append(acc.array, band),
     count |-> acc.count + getCount1(band.region),
     minX |-> IF bounds.min < acc.minX THEN bounds.min ELSE acc.minX,
     maxX |-> IF bounds.max > acc.maxX THEN bounds.max ELSE acc.maxX,
     hash |-> HashStep(acc.hash, getHashCode1(band.region))]

\* The loop of makeDataFromRows.
RECURSIVE rowsLoop(_, _, _, _)
rowsLoop(bands, i, prevMax, acc) ==
    IF i < Len(bands)
    THEN IF bandIsInvalid(bands[i + 1], prevMax)
            \/ getCount1(bands[i + 1].region) = 0
         THEN [error |-> "Invalid row data", data |-> makeEmptyRegionData]
         ELSE rowsLoop(bands, i + 1, prevMax,
                       collectBand(acc, bands[i + 1],
                                   getBounds1(bands[i + 1].region)))
    ELSE [error |-> "none", data |-> newRegionData(
              [result |-> acc.array, count |-> acc.count,
               minX |-> acc.minX, maxX |-> acc.maxX, hash |-> acc.hash])]

\* makeDataFromRows
makeDataFromRows(bands) ==
    rowsLoop(bands, 0, nInf,
             [array |-> << >>, count |-> 0,
              minX |-> pInf, maxX |-> nInf, hash |-> 0])

\* Region2D.fromRows
fromRows(rows) == makeDataFromRows(rows)

\* makeDataFromRows(transformData(...)): transformData's error ends the call.
dataFromTransformed(t) ==
    IF t.error # "none" THEN [error |-> t.error, data |-> makeEmptyRegionData]
    ELSE makeDataFromRows(t.array)

\* Region2D.prototype.transform, translate and scale
transform2(data, scaleX, scaleY, offsetX, offsetY) ==
    dataFromTransformed(
        transformData2(data.array, scaleX, scaleY, offsetX, offsetY))
translate2(data, offsetX, offsetY) ==
    dataFromTransformed(transformData2(data.array, 1, 1, offsetX, offsetY))
scale2(data, scaleX, scaleY) ==
    dataFromTransformed(transformData2(data.array, scaleX, scaleY, 0, 0))

\* getBoundsFromData
getBoundsFromData(data) ==
    [x |-> data.minX, y |-> data.minY,
     width |-> Sub(data.maxX, data.minX),
     height |-> Sub(data.maxY, data.minY),
     left |-> data.minX, top |-> data.minY,
     right |-> data.maxX, bottom |-> data.maxY]

\* Region2D.prototype.getBounds and getCount
getBounds2(data) == getBoundsFromData(data)
getCount2(data) == data.count

\* _getRawRows(data): srcArray = data.array.  The argument is a JavaScript
\* value: the region data object (kind "data") or an array (kind "array"),
\* which has no array property, so that srcArray.length fails.
getRawRowsFrom(value) ==
    IF value.kind # "data" THEN [error |-> "TypeError", rows |-> << >>]
    ELSE [error |-> "none",
          rows |-> [i \in 1..Len(value.array) |->
                       [minY |-> value.array[i].minY,
                        maxY |-> value.array[i].maxY,
                        region |-> value.array[i].region]]]

\* Region2D.prototype.getRawRows: _getRawRows(getData(this).array)
getRawRows(data) == getRawRowsFrom([kind |-> "array", array |-> data.array])

\* ------------------------------------------------------------------------
\* Paths: generateEdges.  An edge runs from (x1, y1) to (x2, y2).

topEdge(minX, maxX, y) ==
    [x1 |-> minX, y1 |-> y, x2 |-> maxX, y2 |-> y, kind |-> "top"]
rightEdge(maxX, minY, maxY) ==
    [x1 |-> maxX, y1 |-> minY, x2 |-> maxX, y2 |-> maxY, kind |-> "right"]
bottomEdge(minX, maxX, y) ==
    [x1 |-> maxX, y1 |-> y, x2 |-> minX, y2 |-> y, kind |-> "bottom"]
\* A variant of the left edge that runs downwards.
leftEdge_downwards(minX, minY, maxY) ==
    [x1 |-> minX, y1 |-> minY, x2 |-> minX, y2 |-> maxY, kind |-> "left"]
leftEdge(minX, minY, maxY) ==
    [x1 |-> minX, y1 |-> maxY, x2 |-> minX, y2 |-> minY, kind |-> "left"]

\* Region1D.prototype.getRawSpans: a copy of the span array.
getRawSpans(r) == [i \in 1..Len(r.array) |-> r.array[i]]

\* The four edges of every span of the only row.
RECURSIVE rectEdges(_, _, _, _, _)
rectEdges(spans, y1, y2, i, edges) ==
    IF i < Len(spans)
    THEN rectEdges(spans, y1, y2, i + 2,
             edges \o <<topEdge(spans[i + 1], spans[i + 2], y1),
                        rightEdge(spans[i + 2], y1, y2),
                        bottomEdge(spans[i + 1], spans[i + 2], y2),
                        leftEdge(spans[i + 1], y1, y2)>>)
    ELSE edges

\* The top edge and the verticals of every span of the first row.
RECURSIVE firstRowEdges(_, _, _, _, _)
firstRowEdges(spans, y1, y2, i, edges) ==
    IF i < Len(spans)
    THEN firstRowEdges(spans, y1, y2, i + 2,
             edges \o <<topEdge(spans[i + 1], spans[i + 2], y1),
                        rightEdge(spans[i + 2], y1, y2),
                        leftEdge(spans[i + 1], y1, y2)>>)
    ELSE edges

\* One bottom edge per span, at y.
RECURSIVE bottomEdges(_, _, _, _)
bottomEdges(spans, y, i, edges) ==
    IF i < Len(spans)
    THEN bottomEdges(spans, y, i + 2,
             Append(edges, bottomEdge(spans[i + 1], spans[i + 2], y)))
    ELSE edges

\* One top edge per span, at y.
RECURSIVE topEdges(_, _, _, _)
topEdges(spans, y, i, edges) ==
    IF i < Len(spans)
    THEN topEdges(spans, y, i + 2,
             Append(edges, topEdge(spans[i + 1], spans[i + 2], y)))
    ELSE edges

\* The verticals of every span of a row.
RECURSIVE verticalEdges(_, _, _, _, _)
verticalEdges(spans, y1, y2, i, edges) ==
    IF i < Len(spans)
    THEN verticalEdges(spans, y1, y2, i + 2,
             edges \o <<rightEdge(spans[i + 2], y1, y2),
                        leftEdge(spans[i + 1], y1, y2)>>)
    ELSE edges

\* The horizontal edges between the previous row and this row.
interiorEdges(prev, row, edges) ==
    IF row.minY > prev.maxY
    THEN topEdges(getRawSpans(row.region), row.minY, 0,
             bottomEdges(getRawSpans(prev.region), prev.maxY, 0, edges))
    ELSE topEdges(getRawSpans(subtract1(row.region, prev.region)),
                  row.minY, 0,
             bottomEdges(getRawSpans(subtract1(prev.region, row.region)),
                         row.minY, 0, edges))

\* The loop of generateEdges over the rows after the first.
RECURSIVE interiorRows(_, _, _)
interiorRows(array, rowIndex, edges) ==
    IF rowIndex < Len(array)
    THEN interiorRows(array, rowIndex + 1,
             verticalEdges(getRawSpans(array[rowIndex + 1].region),
                           array[rowIndex + 1].minY,
                           array[rowIndex + 1].maxY, 0,
                 interiorEdges(array[rowIndex], array[rowIndex + 1], edges)))
    ELSE edges

\* generateEdges
generateEdges(array) ==
    IF Len(array) < 1 THEN << >>
    ELSE IF Len(array) = 1
    THEN rectEdges(getRawSpans(array[1].region),
                   array[1].minY, array[1].maxY, 0, << >>)
    ELSE bottomEdges(getRawSpans(array[Len(array)].region),
                     array[Len(array)].maxY, 0,
             interiorRows(array, 1,
                 firstRowEdges(getRawSpans(array[1].region),
                               array[1].minY, array[1].maxY, 0, << >>)))

\* ------------------------------------------------------------------------
\* Paths: makeEdgeTable and makeWindings.  Edges are named by their index
\* in the edge list; 0 stands for null.

\* makeEdgeTable: the linked list of all edges in list order.  consumed
\* counts the calls of consumeEdge.
makeEdgeList(edges) ==
    [next |-> [i \in 1..Len(edges) |-> IF i < Len(edges) THEN i + 1 ELSE 0],
     prev |-> [i \in 1..Len(edges) |-> i - 1],
     firstEdge |-> IF Len(edges) > 0 THEN 1 ELSE 0,
     lastEdge |-> Len(edges),
     used |-> {},
     consumed |-> 0]

\* table[key]: the edges that start at the point (x, y), in list order.
RECURSIVE tableLookup(_, _, _, _, _)
tableLookup(edges, x, y, i, found) ==
    IF i < Len(edges)
    THEN tableLookup(edges, x, y, i + 1,
             IF edges[i + 1].x1 = x /\ edges[i + 1].y1 = y
             THEN Append(found, i + 1) ELSE found)
    ELSE found

\* consumeEdge, first half: unlink the edge from its successor.
unlinkNext(l, edge) ==
    IF l.next[edge] # 0
    THEN [l EXCEPT !.prev[l.next[edge]] = l.prev[edge]]
    ELSE [l EXCEPT !.lastEdge = l.prev[edge]]

\* consumeEdge, second half: unlink it from its predecessor and mark it.
unlinkPrev(l, edge) ==
    IF l.prev[edge] # 0
    THEN [l EXCEPT !.next[l.prev[edge]] = l.next[edge],
                   !.used = @ \cup {edge},
                   !.consumed = @ + 1]
    ELSE [l EXCEPT !.firstEdge = l.next[edge],
                   !.used = @ \cup {edge},
                   !.consumed = @ + 1]

\* A variant of consumeEdge that marks the edge and leaves it in the list.
consumeEdge_keepLinked(l, edge) ==
    [l EXCEPT !.used = @ \cup {edge}, !.consumed = @ + 1]
\* consumeEdge: remove the edge from the list and mark it as used.
consumeEdge(l, edge) == unlinkPrev(unlinkNext(l, edge), edge)

\* The kind the walk prefers after an edge of the given kind.
preferredKind(kind) ==
    CASE kind = "top"    -> "right"
      [] kind = "right"  -> "bottom"
      [] kind = "bottom" -> "left"
      [] kind = "left"   -> "top"

\* The first unused edge of possibleEdges from position i on that has the
\* given kind (any kind when kind is "any"); 0 when there is none.
RECURSIVE firstUnused(_, _, _, _, _)
firstUnused(edges, used, possibleEdges, kind, i) ==
    IF i < Len(possibleEdges)
    THEN IF possibleEdges[i + 1] \notin used
            /\ (kind = "any" \/ edges[possibleEdges[i + 1]].kind = kind)
         THEN possibleEdges[i + 1]
         ELSE firstUnused(edges, used, possibleEdges, kind, i + 1)
    ELSE 0

\* findBestPossibleEdge: 0 when it throws "Edge generation failure."  A
\* single possible edge is taken whether it is used or not
\* (possibleEdges.used is undefined).
findBestPossibleEdge(edges, used, edge, possibleEdges) ==
    IF Len(possibleEdges) = 1 THEN possibleEdges[1]
    ELSE IF firstUnused(edges, used, possibleEdges,
                        preferredKind(edges[edge].kind), 0) # 0
    THEN firstUnused(edges, used, possibleEdges,
                     preferredKind(edges[edge].kind), 0)
    ELSE firstUnused(edges, used, possibleEdges, "any", 0)

\* The first edge of kind top from startEdge on; 0 when the list ends.
RECURSIVE findTop(_, _, _)
findTop(edges, l, startEdge) ==
    IF startEdge = 0 THEN 0
    ELSE IF edges[startEdge].kind = "top" THEN startEdge
    ELSE findTop(edges, l, l.next[startEdge])

\* Emit the next point of the winding: a vertical edge preceded by another
\* vertical edge extends it.
emitPoint(winding, edge, prevs) ==
    IF Len(prevs) = 2 /\ edge.x1 = prevs[2] /\ prevs[2] = prevs[1]
    THEN [winding EXCEPT ![Len(winding)].y = edge.y1]
    ELSE Append(winding, [x |-> edge.x1, y |-> edge.y1])

\* The end of a winding: a last vertical edge gives up its extra point.
closeWinding(winding, prevs) ==
    IF Len(prevs) = 2 /\ winding[1].x = prevs[2] /\ prevs[2] = prevs[1]
    THEN SubSeq(winding, 1, Len(winding) - 1)
    ELSE winding

\* The inner loop of makeWindings: follow the end point of currentEdge
\* until the start point of startEdge is reached.  prevs holds prevPrevX
\* (when not null) and prevX.  A walk of more than 3 * edges.length steps
\* never ends, since the set of used edges only grows.
RECURSIVE walk(_, _, _, _, _, _, _)
walkTo(edges, startEdge, l, nextEdge, winding, prevs, n) ==
    IF nextEdge = 0
    THEN [error |-> "Edge generation failure.", l |-> l, winding |-> winding]
    ELSE walk(edges, startEdge, consumeEdge(l, nextEdge), nextEdge,
              emitPoint(winding, edges[nextEdge], prevs),
              <<prevs[Len(prevs)], edges[nextEdge].x1>>, n + 1)

walkFrom(edges, startEdge, l, currentEdge, winding, prevs, n, possibleEdges) ==
    IF Len(possibleEdges) = 0
    THEN [error |-> "TypeError", l |-> l, winding |-> winding]
    ELSE walkTo(edges, startEdge, l,
                findBestPossibleEdge(edges, l.used, currentEdge, possibleEdges),
                winding, prevs, n)

walk(edges, startEdge, l, currentEdge, winding, prevs, n) ==
    IF edges[currentEdge].x2 = edges[startEdge].x1
       /\ edges[currentEdge].y2 = edges[startEdge].y1
    THEN [error |-> "none", l |-> l, winding |-> closeWinding(winding, prevs)]
    ELSE IF n > 3 * Len(edges)
    THEN [error |-> "no return", l |-> l, winding |-> winding]
    ELSE walkFrom(edges, startEdge, l, currentEdge, winding, prevs, n,
                  tableLookup(edges, edges[currentEdge].x2,
                              edges[currentEdge].y2, 0, << >>))

\* The main loop of makeWindings: one polygon per pass, while the list of
\* unconsumed edges is not empty.
RECURSIVE windingsLoop(_, _, _)
windingDone(edges, allWindings, w) ==
    IF w.error # "none"
    THEN [error |-> w.error, path |-> allWindings, l |-> w.l]
    ELSE windingsLoop(edges, w.l, Append(allWindings, w.winding))

windingFrom(edges, l, allWindings, startEdge) ==
    IF startEdge = 0
    THEN [error |-> "TypeError", path |-> allWindings, l |-> l]
    ELSE windingDone(edges, allWindings,
             walk(edges, startEdge, consumeEdge(l, startEdge), startEdge,
                  <<[x |-> edges[startEdge].x1, y |-> edges[startEdge].y1]>>,
                  <<edges[startEdge].x1>>, 0))

windingsLoop(edges, l, allWindings) ==
    IF l.firstEdge = 0
    THEN [error |-> "none", path |-> allWindings, l |-> l]
    ELSE IF Len(allWindings) > Len(edges)
    THEN [error |-> "no return", path |-> allWindings, l |-> l]
    ELSE windingFrom(edges, l, allWindings, findTop(edges, l, l.firstEdge))

\* makeWindings
makeWindings(edges) == windingsLoop(edges, makeEdgeList(edges), << >>)

\* makePath
makePath(array) ==
    IF Len(array) = 0
    THEN [error |-> "none", path |-> << >>, l |-> makeEdgeList(<< >>)]
    ELSE makeWindings(generateEdges(array))

\* Region2D.prototype.getPath
getPath(data) == makePath(data.array)

\* ------------------------------------------------------------------------
\* Objects.  combineData builds its result from band objects
\* { region, minY, maxY } and extends the last of them in place.  Here the
\* band objects live in a store (a list, an object's index is its
\* reference) and a band array is a list of references.  Region1D objects
\* and the region data objects (array, count, bounds, hash) are never
\* assigned to after their construction, so they remain values.

\* The band array as the bands it refers to.
deref(bands, array) == [i \in 1..Len(array) |-> bands[array[i]]]

\* A variant of the merge that writes to the band object at the position
\* of the last result in the store instead of the last result itself.
extendLast_wrongObject(h, pair) ==
    [h EXCEPT !.bands[Len(h.result)].maxY = pair.maxY]

\* lastResult.maxY = pair.maxY
extendLast(h, pair) ==
    [h EXCEPT !.bands[h.lastResult].maxY = pair.maxY]

\* result.push(lastResult = { region: resultRow, minY: ..., maxY: ... })
pushNew(h, pair, resultRow) ==
    [bands |-> Append(h.bands, [region |-> resultRow,
                                minY |-> pair.minY, maxY |-> pair.maxY]),
     result |-> Append(h.result, Len(h.bands) + 1),
     lastResult |-> Len(h.bands) + 1]

\* The body of the for loop of combineData on the store.
combineRowInStore(h, pair, resultRow) ==
    IF isEmpty1(resultRow) THEN h
    ELSE IF h.lastResult # 0
            /\ equals1(resultRow, h.bands[h.lastResult].region)
            /\ h.bands[h.lastResult].maxY = pair.minY
    THEN extendLast(h, pair)
    ELSE pushNew(h, pair, resultRow)

\* The for loop of combineData on the store: the generator reads the rows
\* of array1 and array2 through their references on every call.
RECURSIVE combineLoopInStore(_, _, _, _, _)
combineNextInStore(array1, array2, rowTransform, h, nx) ==
    IF nx.done THEN h
    ELSE combineLoopInStore(array1, array2, rowTransform, nx.g,
             combineRowInStore(h, nx.pair, Op1(rowTransform, nx.pair.row1, nx.pair.row2)))

combineLoopInStore(array1, array2, rowTransform, g, h) ==
    combineNextInStore(array1, array2, rowTransform, h,
        rowPairNext(deref(h.bands, array1), deref(h.bands, array2), g))

\* combineData on the store: the new store and the new band array.
combineDataInStore(bands, array1, array2, rowTransform) ==
    combineLoopInStore(array1, array2, rowTransform, makeRowPairGenerator,
                       [bands |-> bands, result |-> << >>, lastResult |-> 0])

\* The store after a call and the band array of the region it returned.
returned(hp, h) == [hp EXCEPT !.bands = h.bands, !.r = h.result]

\* Region2D.prototype.union, intersect, subtract, xor and not on the
\* store; data and otherData are the region data of the receiver and of
\* the argument.
unionInStore(hp, data, otherData) ==
    returned(hp, combineDataInStore(hp.bands, hp.a, hp.b, "union"))

intersectInStore(hp, data, otherData) ==
    IF ~doBoundsOverlap(data, otherData) THEN [hp EXCEPT !.r = << >>]
    ELSE returned(hp, combineDataInStore(hp.bands, hp.a, hp.b, "intersect"))

subtractInStore(hp, data, otherData) ==
    IF ~doBoundsOverlap(data, otherData) THEN [hp EXCEPT !.r = hp.a]
    ELSE returned(hp, combineDataInStore(hp.bands, hp.a, hp.b, "subtract"))

xorInStore(hp, data, otherData) ==
    returned(hp, combineDataInStore(hp.bands, hp.a, hp.b, "xor"))

notInStore(hp, data) ==
    returned(hp, combineDataInStore(hp.bands, hp.a, hp.infinite, "xor"))

\* ------------------------------------------------------------------------
\* The algebra specification: regions built by the constructor and by union,
\* subtract and xor, then combined with themselves, with each other in both
\* orders, with Region2D.empty and Region2D.infinite, or rebuilt from their
\* own rectangles.

Builders == {"new", "keep", "union", "subtract", "xor"}

SelfUnion2D ==
    /\ op \in Builders
    /\ res' = union2(ra, ra) /\ op' = "selfUnion"
    /\ UNCHANGED <<ra, rb, res2, steps, vars1, varsQ>>

SelfIntersect2D ==
    /\ op \in Builders
    /\ res' = intersect2(ra, ra) /\ op' = "selfIntersect"
    /\ UNCHANGED <<ra, rb, res2, steps, vars1, varsQ>>

SelfXor2D ==
    /\ op \in Builders
    /\ res' = xor2(ra, ra) /\ op' = "selfXor"
    /\ UNCHANGED <<ra, rb, res2, steps, vars1, varsQ>>

SelfSubtract2D ==
    /\ op \in Builders
    /\ res' = subtract2(ra, ra) /\ op' = "selfSubtract"
    /\ UNCHANGED <<ra, rb, res2, steps, vars1, varsQ>>

\* a.union(b) and b.union(a)
CommuteUnion2D ==
    /\ op \in Builders
    /\ res' = union2(ra, rb) /\ res2' = union2(rb, ra)
    /\ op' = "commuteUnion"
    /\ UNCHANGED <<ra, rb, steps, vars1, varsQ>>

\* a.intersect(b) and b.intersect(a)
CommuteIntersect2D ==
    /\ op \in Builders
    /\ res' = intersect2(ra, rb) /\ res2' = intersect2(rb, ra)
    /\ op' = "commuteIntersect"
    /\ UNCHANGED <<ra, rb, steps, vars1, varsQ>>

\* a.xor(b) and b.xor(a)
CommuteXor2D ==
    /\ op \in Builders
    /\ res' = xor2(ra, rb) /\ res2' = xor2(rb, ra)
    /\ op' = "commuteXor"
    /\ UNCHANGED <<ra, rb, steps, vars1, varsQ>>

\* a.union(Region2D.empty)
UnionEmpty2D ==
    /\ op \in Builders
    /\ res' = union2(ra, empty) /\ op' = "unionEmpty"
    /\ UNCHANGED <<ra, rb, res2, steps, vars1, varsQ>>

\* a.intersect(Region2D.empty)
IntersectEmpty2D ==
    /\ op \in Builders
    /\ res' = intersect2(ra, empty) /\ op' = "intersectEmpty"
    /\ UNCHANGED <<ra, rb, res2, steps, vars1, varsQ>>

\* a.intersect(Region2D.infinite)
IntersectInfinite2D ==
    /\ op \in Builders
    /\ res' = intersect2(ra, infinite) /\ op' = "intersectInfinite"
    /\ UNCHANGED <<ra, rb, res2, steps, vars1, varsQ>>

\* a.union(Region2D.infinite)
UnionInfinite2D ==
    /\ op \in Builders
    /\ res' = union2(ra, infinite) /\ op' = "unionInfinite"
    /\ UNCHANGED <<ra, rb, res2, steps, vars1, varsQ>>

\* Region2D.fromRects(a.getRects())
FromRects2D ==
    /\ op \in Builders
    /\ \A i \in 1..Len(getRects(ra)) : rectObjectIsValid(getRects(ra)[i])
    /\ res' = fromRects(getRects(ra)) /\ op' = "fromRects"
    /\ UNCHANGED <<ra, rb, res2, steps, vars1, varsQ>>

NextLaws ==
    \/ (op \in Builders /\ Union2D)
    \/ (op \in Builders /\ Subtract2D)
    \/ (op \in Builders /\ Xor2D)
    \/ KeepAsA2D \/ KeepAsB2D
    \/ SelfUnion2D \/ SelfIntersect2D \/ SelfXor2D \/ SelfSubtract2D
    \/ CommuteUnion2D \/ CommuteIntersect2D \/ CommuteXor2D
    \/ UnionEmpty2D \/ IntersectEmpty2D \/ IntersectInfinite2D
    \/ UnionInfinite2D
    \/ FromRects2D

SpecLaws == Init /\ [][NextLaws]_vars

\* ------------------------------------------------------------------------
\* The transformation specification: regions built by the constructor, by
\* not and by fromRows, then scaled, translated and transformed with valid
\* and invalid arguments, or read back by getRawRows; the same for Region1D.

ScaleArgs == {NaN, 0 - 1, 0, 2, pInf}
OffsetArgs == {NaN, nInf, 1, FirstInexact, pInf}

\* The rows passed to fromRows: at most two bands, valid and invalid ones.
RowRegions == {empty1, newRegion1D(<<0, 1>>), newRegion1D(<<nInf, pInf>>)}
BandArgs ==
    {[region |-> r, minY |-> y1, maxY |-> y2] :
        r \in RowRegions, y1 \in CoordY, y2 \in CoordY}
RowArgs ==
    {<< >>} \cup {<<b>> : b \in BandArgs}
            \cup {<<b, c>> : b \in BandArgs, c \in BandArgs}

InitT ==
    /\ ra \in NewRegions2
    /\ rb = empty /\ res = empty /\ res2 = empty
    /\ op = "new" /\ steps = 0
    /\ Idle1 /\ IdleQ

\* What the caller of a 2-D call gets: the region or the error.
Returned2(t) ==
    /\ ret' = t.error
    /\ res' = IF t.error = "none" THEN t.data ELSE res

\* What the caller of a 1-D call gets: the region or the error.
Returned1(t) ==
    /\ ret' = t.error
    /\ r1' = IF t.error = "none" THEN t.region ELSE r1

Scale2D ==
    /\ op \in {"new", "keep"}
    /\ \E scaleX \in ScaleArgs, scaleY \in ScaleArgs :
          /\ arg' = <<scaleX, scaleY>>
          /\ Returned2(scale2(ra, scaleX, scaleY))
    /\ op' = "scale"
    /\ UNCHANGED <<ra, rb, res2, steps, px, py, path, heap, vars1>>

Translate2D ==
    /\ op \in {"new", "keep"}
    /\ \E offsetX \in OffsetArgs, offsetY \in OffsetArgs :
          /\ arg' = <<offsetX, offsetY>>
          /\ Returned2(translate2(ra, offsetX, offsetY))
    /\ op' = "translate"
    /\ UNCHANGED <<ra, rb, res2, steps, px, py, path, heap, vars1>>

Transform2D ==
    /\ op \in {"new", "keep"}
    /\ \E scaleX \in ScaleArgs, scaleY \in ScaleArgs,
          offsetX \in OffsetArgs, offsetY \in OffsetArgs :
          /\ arg' = <<scaleX, scaleY, offsetX, offsetY>>
          /\ Returned2(transform2(ra, scaleX, scaleY, offsetX, offsetY))
    /\ op' = "transform"
    /\ UNCHANGED <<ra, rb, res2, steps, px, py, path, heap, vars1>>

\* Region2D.fromRows(rows)
FromRows2D ==
    /\ op = "new" /\ ra = empty
    /\ \E rows \in RowArgs :
          /\ arg' = rows
          /\ Returned2(fromRows(rows))
    /\ op' = "fromRows"
    /\ UNCHANGED <<ra, rb, res2, steps, px, py, path, heap, vars1>>

\* a.getRawRows()
GetRawRows2D ==
    /\ op \in {"new", "keep"}
    /\ ret' = getRawRows(ra).error
    /\ arg' = getRawRows(ra).rows
    /\ op' = "getRawRows"
    /\ UNCHANGED <<ra, rb, res, res2, steps, px, py, path, heap, vars1>>

\* The caller keeps the region a call returned and uses it as the next
\* receiver.
KeepReturned2D ==
    /\ op \in {"scale", "translate", "transform", "fromRows"}
    /\ ret = "none"
    /\ steps < MaxSteps
    /\ ra' = res /\ steps' = steps + 1 /\ op' = "keep"
    /\ UNCHANGED <<rb, res, res2, ret, px, py, path, arg, heap, vars1>>

Scale1D ==
    /\ op1 = "new"
    /\ \E scale \in ScaleArgs :
          /\ arg' = <<scale>>
          /\ Returned1(scale1(a1, scale))
    /\ op1' = "scale"
    /\ UNCHANGED <<a1, b1, n1, px, py, path, heap, vars2>>

Translate1D ==
    /\ op1 = "new"
    /\ \E offset \in OffsetArgs :
          /\ arg' = <<offset>>
          /\ Returned1(translate1(a1, offset))
    /\ op1' = "translate"
    /\ UNCHANGED <<a1, b1, n1, px, py, path, heap, vars2>>

Transform1D ==
    /\ op1 = "new"
    /\ \E scale \in ScaleArgs, offset \in OffsetArgs :
          /\ arg' = <<scale, offset>>
          /\ Returned1(transform1(a1, scale, offset))
    /\ op1' = "transform"
    /\ UNCHANGED <<a1, b1, n1, px, py, path, heap, vars2>>

\* The 2-D calls are made while no 1-D operand has been built, the 1-D
\* calls while no 2-D operand has been built.
No1D == op1 = "new" /\ a1 = empty1 /\ b1 = empty1
No2D == op = "new" /\ ra = empty /\ rb = empty

NextT ==
    \/ (No1D /\ ret = "none" /\ Not2D)
    \/ (No1D /\ ret = "none" /\ KeepAsA2D)
    \/ (No1D /\ Scale2D)
    \/ (No1D /\ Translate2D)
    \/ (No1D /\ Transform2D)
    \/ (No1D /\ FromRows2D)
    \/ (No1D /\ GetRawRows2D)
    \/ (No1D /\ KeepReturned2D)
    \/ (No2D /\ Scale1D)
    \/ (No2D /\ Translate1D)
    \/ (No2D /\ Transform1D)

SpecT == (InitT \/ Init1D) /\ [][NextT]_vars

\* ------------------------------------------------------------------------
\* The path specification: regions built by the constructor and by union,
\* subtract and xor, then traced by getPath.

\* a.getPath(); arg records the number of edges generated and the list of
\* unconsumed edges the call ended with.
GetPath2D ==
    /\ op \in {"new", "keep"}
    /\ ret' = getPath(ra).error
    /\ path' = getPath(ra).path
    /\ arg' = [edges |-> IF Len(ra.array) = 0 THEN 0
                         ELSE Len(generateEdges(ra.array)),
               firstEdge |-> getPath(ra).l.firstEdge,
               used |-> getPath(ra).l.used,
               consumed |-> getPath(ra).l.consumed]
    /\ op' = "getPath"
    /\ UNCHANGED <<ra, rb, res, res2, steps, px, py, heap, vars1>>

NextP ==
    \/ (ret = "none" /\ op # "getPath" /\ Union2D)
    \/ (ret = "none" /\ op # "getPath" /\ Subtract2D)
    \/ (ret = "none" /\ op # "getPath" /\ Xor2D)
    \/ KeepAsA2D \/ KeepAsB2D
    \/ GetPath2D

SpecP == Init /\ [][NextP]_vars

\* ------------------------------------------------------------------------
\* The object specification: the CSG operations of Spec on the store of
\* band objects, and the predicates that fail.

\* The store after the module has created Region2D.infinite and the caller
\* has constructed the receiver and the argument.
InitH ==
    /\ ra \in NewRegions2
    /\ rb \in NewRegions2
    /\ res = empty /\ res2 = empty
    /\ op = "new" /\ steps = 0
    /\ Idle1
    /\ ret = "none" /\ px = 0 /\ py = 0 /\ path = << >> /\ arg = << >>
    /\ heap = [bands |-> infinite.array \o ra.array \o rb.array,
               infinite |-> <<1>>,
               a |-> IF Len(ra.array) = 0 THEN << >> ELSE <<2>>,
               b |-> IF Len(rb.array) = 0 THEN << >>
                     ELSE <<1 + Len(ra.array) + 1>>,
               r |-> << >>]

UnionH ==
    /\ op \in {"new", "keep"}
    /\ heap' = unionInStore(heap, ra, rb)
    /\ res' = union2(ra, rb) /\ op' = "union"
    /\ UNCHANGED <<ra, rb, res2, steps, ret, px, py, path, arg, vars1>>

IntersectH ==
    /\ op \in {"new", "keep"}
    /\ heap' = intersectInStore(heap, ra, rb)
    /\ res' = intersect2(ra, rb) /\ op' = "intersect"
    /\ UNCHANGED <<ra, rb, res2, steps, ret, px, py, path, arg, vars1>>

SubtractH ==
    /\ op \in {"new", "keep"}
    /\ heap' = subtractInStore(heap, ra, rb)
    /\ res' = subtract2(ra, rb) /\ op' = "subtract"
    /\ UNCHANGED <<ra, rb, res2, steps, ret, px, py, path, arg, vars1>>

XorH ==
    /\ op \in {"new", "keep"}
    /\ heap' = xorInStore(heap, ra, rb)
    /\ res' = xor2(ra, rb) /\ op' = "xor"
    /\ UNCHANGED <<ra, rb, res2, steps, ret, px, py, path, arg, vars1>>

NotH ==
    /\ op \in {"new", "keep"}
    /\ heap' = notInStore(heap, ra)
    /\ res' = not2(ra) /\ op' = "not"
    /\ UNCHANGED <<ra, rb, res2, steps, ret, px, py, path, arg, vars1>>

\* The caller keeps the result and uses it as the next receiver / argument.
KeepAsAH ==
    /\ op \in {"union", "intersect", "subtract", "xor", "not"}
    /\ steps < MaxSteps
    /\ ra' = res /\ heap' = [heap EXCEPT !.a = heap.r]
    /\ steps' = steps + 1 /\ op' = "keep"
    /\ UNCHANGED <<rb, res, res2, ret, px, py, path, arg, vars1>>

KeepAsBH ==
    /\ op \in {"union", "intersect", "subtract", "xor", "not"}
    /\ steps < MaxSteps
    /\ rb' = res /\ heap' = [heap EXCEPT !.b = heap.r]
    /\ steps' = steps + 1 /\ op' = "keep"
    /\ UNCHANGED <<ra, res, res2, ret, px, py, path, arg, vars1>>

\* a.equals(b) and a.doesIntersect(b): calls that may fail; they create
\* and change no object.
EqualsH ==
    /\ op \in {"new", "keep"}
    /\ ret' = equals2(ra, rb)
    /\ op' = "equals"
    /\ UNCHANGED <<ra, rb, res, res2, steps, px, py, path, arg, heap, vars1>>

DoesIntersectH ==
    /\ op \in {"new", "keep"}
    /\ ret' = doesIntersect2(ra, rb)
    /\ op' = "doesIntersect"
    /\ UNCHANGED <<ra, rb, res, res2, steps, px, py, path, arg, heap, vars1>>

NextH ==
    \/ UnionH \/ IntersectH \/ SubtractH \/ XorH \/ NotH
    \/ KeepAsAH \/ KeepAsBH
    \/ EqualsH \/ DoesIntersectH

SpecH == InitH /\ [][NextH]_vars

\* ------------------------------------------------------------------------
\* Argument checks of the constructors and of the binary operations.

\* typeof v === 'number': true of NaN and of the infinities.
isNumber(v) == v # NonNumber

\* cur <= prev of two numbers: false when either of them is NaN.
lessOrEqual(cur, prev) == cur # NaN /\ prev # NaN /\ cur <= prev

\* The loop of validateData from entry i on: the error it throws, "none"
\* when it runs to the end.
RECURSIVE validateLoop(_, _, _)
validateLoop(array, i, prev) ==
    IF i > Len(array) THEN "none"
    ELSE IF ~isNumber(array[i]) THEN "Type error"
    ELSE IF lessOrEqual(array[i], prev) THEN "Data error"
    ELSE validateLoop(array, i + 1, array[i])

\* validateData of any argument: input.isArray tells whether the argument
\* is an array, input.items are its entries.
validateInput(input) ==
    IF ~input.isArray \/ Len(input.items) % 2 = 1 THEN "Type error"
    ELSE IF Len(input.items) = 0 THEN "none"
    ELSE IF ~isNumber(input.items[1]) THEN "Type error"
    ELSE validateLoop(input.items, 2, input.items[1])

\* new Region1D(array) called from outside: a throw leaves the caller with
\* no region.
constructRegion1D(input) ==
    IF validateInput(input) # "none"
    THEN [error |-> validateInput(input), constructed |-> FALSE,
          region |-> empty1]
    ELSE [error |-> "none", constructed |-> TRUE,
          region |-> newRegion1D(input.items)]

\* a + b of two numbers, with the infinities and NaN.
jsAdd(a, b) ==
    IF a = NaN \/ b = NaN THEN NaN
    ELSE IF (a = pInf /\ b = nInf) \/ (a = nInf /\ b = pInf) THEN NaN
    ELSE IF a = pInf \/ b = pInf THEN pInf
    ELSE IF a = nInf \/ b = nInf THEN nInf
    ELSE a + b

\* The coordinates <<minX, minY, maxX, maxY>> makeRegionDataFromOneRect
\* reads from the rectangle: an array [x1, y1, x2, y2], an object with left,
\* top, right and bottom, or an object with x, y, width and height (the
\* properties of an object are listed in input.items in this order).
rectCoords(input) ==
    IF input.form = "xywh"
    THEN <<input.items[1], input.items[2],
           jsAdd(input.items[1], input.items[3]),
           jsAdd(input.items[2], input.items[4])>>
    ELSE <<input.items[1], input.items[2], input.items[3], input.items[4]>>

\* A variant of the size validation that tests the width only.
sizeIsInvalid_widthOnly(c) == lessOrEqual(c[3], c[1])
\* maxX <= minX || maxY <= minY
sizeIsInvalid(c) == lessOrEqual(c[3], c[1]) \/ lessOrEqual(c[4], c[2])

\* The end of makeRegionDataFromOneRect: new Region1D([minX, maxX]) is
\* validated, then the data of the one band is built.
oneRectFromCoords(c, row) ==
    IF row.error # "none"
    THEN [error |-> row.error, constructed |-> FALSE, data |-> empty]
    ELSE [error |-> "none", constructed |-> TRUE,
          data |-> oneRectData(c[1], c[2], c[3], c[4], row.region)]

\* new Region2D(rect) called from outside with a rectangle.
constructRegion2D(input) ==
    IF input.form = "array" /\ Len(input.items) # 4
    THEN [error |-> "Invalid rectangle data", constructed |-> FALSE,
          data |-> empty]
    ELSE IF sizeIsInvalid(rectCoords(input))
    THEN [error |-> "Invalid rectangle size", constructed |-> FALSE,
          data |-> empty]
    ELSE oneRectFromCoords(rectCoords(input),
             constructRegion1D([isArray |-> TRUE,
                                items |-> <<rectCoords(input)[1],
                                            rectCoords(input)[3]>>]))

\* The bit flags of relateData after the coordinates at one x: 1 = A
\* contains B, 2 = B contains A, 4 = they intersect.
relateFlags(result, depth1, depth2) ==
    IF BitAnd(depth1, depth2) # 0 THEN BitOr(result, 4)
    ELSE IF BitAndNot(depth2, depth1) # 0 THEN BitAndNot(result, 1)
    ELSE IF BitAndNot(depth1, depth2) # 0 THEN BitAndNot(result, 2)
    ELSE result

\* A variant of the final switch that reports containment for the flags of
\* a plain intersection.
relateAnswer_containsOnIntersect(result) ==
    CASE result = 4 -> "a-contain-b"
      [] result = 5 -> "a-contain-b"
      [] result = 6 -> "b-contain-a"
      [] result = 7 -> "equal"
      [] OTHER -> ""
\* The switch at the end of relateData.
relateAnswer(result) ==
    CASE result = 4 -> "intersect"
      [] result = 5 -> "a-contain-b"
      [] result = 6 -> "b-contain-a"
      [] result = 7 -> "equal"
      [] OTHER -> ""

\* One pass of the do-while loop of relateData; s.result holds the flags.
RECURSIVE relateSweep(_, _, _, _)
relateFlagged(array1, array2, earlyOut, t, flags) ==
    IF earlyOut /\ BitAnd(t.depth1, t.depth2) # 0 THEN "intersect"
    ELSE IF t.coord.src # 0
    THEN relateSweep(array1, array2, earlyOut, [t EXCEPT !.result = flags])
    ELSE relateAnswer(flags)

relateStep(array1, array2, earlyOut, t) ==
    relateFlagged(array1, array2, earlyOut, t,
                  relateFlags(t.result, t.depth1, t.depth2))

relateSweep(array1, array2, earlyOut, s) ==
    relateStep(array1, array2, earlyOut,
               sameX(array1, array2, s.coord.x, addDepth(s, s.coord)))

\* relateData: how two sorted arrays of spans relate.
relateData(array1, array2, earlyOut) ==
    IF Len(array1) = 0 \/ Len(array2) = 0 THEN ""
    ELSE IF array1[Len(array1)] < array2[1]
            \/ array2[Len(array2)] < array1[1] THEN ""
    ELSE relateSweep(array1, array2, earlyOut,
             [sweepStart(getNext(array1, array2, 0, 0)) EXCEPT !.result = 3])

\* Region1D.prototype.relate and doesIntersect, past the type check.
relate1(r, other) == relateData(r.array, other.array, FALSE)
doesIntersect1(r, other) == Bool(relateData(r.array, other.array, TRUE) # "")

\* An argument of a binary method: obj.type is "Region1D" or "Region2D" for
\* an instance (obj.r1 or obj.r2 its private data), anything else for a
\* value that is no region.
\* A variant of the check that accepts every object with private data.
verifyRegion1DType_anyRegion(obj) == obj.type \in {"Region1D", "Region2D"}
\* obj instanceof Region1D
verifyRegion1DType(obj) == obj.type = "Region1D"
\* obj instanceof Region2D
verifyRegion2DType(obj) == obj.type = "Region2D"

\* getData(obj) = obj._opaque(privateKey) with the private key of the
\* module of type owner: the error it throws, "none" when it returns.
getData(obj, owner) ==
    IF obj.type = owner THEN "none"
    ELSE IF obj.type \in {"Region1D", "Region2D"} THEN "Illegal access"
    ELSE "TypeError"

Methods1 ==
    {"union", "intersect", "subtract", "xor", "doesIntersect", "relate",
     "equals"}
Methods2 ==
    {"union", "intersect", "subtract", "xor", "doesIntersect", "equals"}

\* The outcome of a call: it throws, it returns a value or it returns a
\* region.
throws(error) ==
    [error |-> error, value |-> "none", returnsRegion |-> FALSE]
returnsValue(v) ==
    [error |-> "none", value |-> v, returnsRegion |-> FALSE]
returnsRegion(r) ==
    [error |-> "none", value |-> "region", returnsRegion |-> TRUE,
     region |-> r]
\* The outcome of a 2-D predicate, "TypeError" being a throw.
outcome(v) == IF v = "TypeError" THEN throws(v) ELSE returnsValue(v)

\* The binary methods of Region1D.prototype.
callMethod1(method, this, other) ==
    IF ~verifyRegion1DType(other) THEN throws("Type error")
    ELSE IF getData(other, "Region1D") # "none"
    THEN throws(getData(other, "Region1D"))
    ELSE CASE method = "union" -> returnsRegion(union1(this, other.r1))
           [] method = "intersect" -> returnsRegion(intersect1(this, other.r1))
           [] method = "subtract" -> returnsRegion(subtract1(this, other.r1))
           [] method = "xor" -> returnsRegion(xor1(this, other.r1))
           [] method = "doesIntersect" -> returnsValue(doesIntersect1(this, other.r1))
           [] method = "relate" -> returnsValue(relate1(this, other.r1))
           [] method = "equals" -> returnsValue(Bool(equals1(this, other.r1)))

\* The binary methods of Region2D.prototype.
callMethod2(method, this, other) ==
    IF ~verifyRegion2DType(other)
    THEN throws("Object must be a Region2D instance.")
    ELSE IF getData(other, "Region2D") # "none"
    THEN throws(getData(other, "Region2D"))
    ELSE CASE method = "union" -> returnsRegion(union2(this, other.r2))
           [] method = "intersect" -> returnsRegion(intersect2(this, other.r2))
           [] method = "subtract" -> returnsRegion(subtract2(this, other.r2))
           [] method = "xor" -> returnsRegion(xor2(this, other.r2))
           [] method = "doesIntersect" -> outcome(doesIntersect2(this, other.r2))
           [] method = "equals" -> outcome(equals2(this, other.r2))

\* ------------------------------------------------------------------------
\* Argument specification: the constructors called with well-formed and
\* ill-formed arguments, and the binary methods called with regions and with
\* values that are no regions of the receiver's type.

\* Longest array passed to new Region1D.
MaxItems == 3

Items1 == {nInf, 0, 1, pInf, NaN, NonNumber}
RectItems == {nInf, NaN, pInf} \cup (0..MaxX)

RECURSIVE Tuples(_, _)
Tuples(S, n) ==
    IF n = 0 THEN {<< >>}
    ELSE {Append(t, v) : t \in Tuples(S, n - 1), v \in S}

Inputs1 ==
    {[isArray |-> isArr, items |-> t] :
        isArr \in BOOLEAN,
        t \in UNION {Tuples(Items1, n) : n \in 0..MaxItems}}

Inputs2 ==
    {[form |-> "array", items |-> t] :
        t \in UNION {Tuples(RectItems, n) : n \in 3..5}}
    \cup {[form |-> f, items |-> t] :
            f \in {"ltrb", "xywh"}, t \in Tuples(RectItems, 4)}

Regions1 == {newRegion1D(q) : q \in ValidArrays1}

Others ==
    {[type |-> t, r1 |-> empty1, r2 |-> empty] :
        t \in {"undefined", "number", "object"}}
    \cup {[type |-> "Region1D", r1 |-> r, r2 |-> empty] : r \in Regions1}
    \cup {[type |-> "Region2D", r1 |-> empty1, r2 |-> d] : d \in NewRegions2}

InitV ==
    /\ \/ (a1 \in Regions1 /\ ra = empty)
       \/ (a1 = empty1 /\ ra \in NewRegions2)
    /\ b1 = empty1 /\ r1 = empty1 /\ op1 = "new" /\ n1 = 0
    /\ rb = empty /\ res = empty /\ res2 = empty
    /\ op = "new" /\ steps = 0
    /\ IdleQ

\* r = new Region1D(input)
New1D ==
    /\ op1 = "new" /\ op = "new" /\ a1 = empty1 /\ ra = empty
    /\ \E input \in Inputs1 :
          /\ arg' = input
          /\ ret' = constructRegion1D(input).error
          /\ r1' = constructRegion1D(input).region
    /\ op1' = "construct"
    /\ UNCHANGED <<a1, b1, n1, px, py, path, heap, vars2>>

\* r = new Region2D(input)
New2D ==
    /\ op1 = "new" /\ op = "new" /\ a1 = empty1 /\ ra = empty
    /\ \E input \in Inputs2 :
          /\ arg' = input
          /\ ret' = constructRegion2D(input).error
          /\ res' = constructRegion2D(input).data
    /\ op' = "construct"
    /\ UNCHANGED <<ra, rb, res2, steps, px, py, path, heap, vars1>>

\* What the caller of a binary method gets: the error, the value or the
\* region.
Called(t, other) ==
    /\ ret' = t.error
    /\ arg' = [other |-> other, value |-> t.value]

\* a.method(other) on a Region1D
Call1D ==
    /\ op1 = "new" /\ op = "new" /\ ra = empty
    /\ \E method \in Methods1, other \in Others :
          /\ Called(callMethod1(method, a1, other), other)
          /\ r1' = IF callMethod1(method, a1, other).returnsRegion
                   THEN callMethod1(method, a1, other).region ELSE r1
          /\ op1' = method
    /\ UNCHANGED <<a1, b1, n1, px, py, path, heap, vars2>>

\* a.method(other) on a Region2D
Call2D ==
    /\ op1 = "new" /\ op = "new" /\ a1 = empty1
    /\ \E method \in Methods2, other \in Others :
          /\ Called(callMethod2(method, ra, other), other)
          /\ res' = IF callMethod2(method, ra, other).returnsRegion
                    THEN callMethod2(method, ra, other).region ELSE res
          /\ op' = method
    /\ UNCHANGED <<ra, rb, res2, steps, px, py, path, heap, vars1>>

NextV ==
    \/ New1D
    \/ New2D
    \/ Call1D
    \/ Call2D

SpecV == InitV /\ [][NextV]_vars

\* ------------------------------------------------------------------------
\* Properties of Region1D.

\* x lies in a span [start, end) of the array.
InSpans(array, x) ==
    \E k \in 1..(Len(array) \div 2) : array[2 * k - 1] <= x /\ x < array[2 * k]

\* The invariant of span data: even length, strictly ascending.
SpansOK(array) ==
    /\ Len(array) % 2 = 0
    /\ \A i \in 2..Len(array) : array[i - 1] < array[i]

\* The probe points: every finite coordinate and one point beyond each end.
Probe1 == (0 - 1)..(Max1 + 1)

\* C3: every Region1D produced by a sequence of union, intersect, xor,
\* subtract and not from validly constructed regions (infinite ends
\* included) holds an array of even length with strictly ascending values.
C3_SpansInvariant ==
    /\ SpansOK(a1.array) /\ SpansOK(b1.array) /\ SpansOK(r1.array)

\* C3 witness: an xor of two regions, one of them reaching -Infinity, whose
\* span boundaries coincide, gave a result of two spans.
C3_Witness ==
    /\ op1 = "xor" /\ n1 = 1
    /\ Len(a1.array) > 0 /\ a1.array[1] = nInf
    /\ \E i \in 1..Len(a1.array) : \E j \in 1..Len(b1.array) :
          a1.array[i] = b1.array[j]
    /\ Len(r1.array) = 4

\* C4: each 1-D operator computes its set-theoretic meaning at every point.
C4_PointwiseMeaning ==
    \A x \in Probe1 :
        LET inA == InSpans(a1.array, x)
            inB == InSpans(b1.array, x)
            inR == InSpans(r1.array, x)
        IN  /\ op1 = "union"     => (inR <=> (inA \/ inB))
            /\ op1 = "intersect" => (inR <=> (inA /\ inB))
            /\ op1 = "xor"       => (inR <=> (inA # inB))
            /\ op1 = "subtract"  => (inR <=> (inA /\ ~inB))
            /\ op1 = "not"       => (inR <=> ~inA)

\* C4 witness: a subtract whose operands share a span boundary and whose
\* result is neither empty nor the receiver.
C4_Witness ==
    /\ op1 = "subtract"
    /\ \E i \in 1..Len(a1.array) : \E j \in 1..Len(b1.array) :
          a1.array[i] = b1.array[j]
    /\ Len(r1.array) > 0 /\ r1.array # a1.array

\* ------------------------------------------------------------------------
\* Properties of Region2D.

\* The point (x, y) is covered by a rectangle of the region: some band has
\* minY <= y < maxY and a span with start <= x < end.
InRegion(data, x, y) ==
    \E i \in 1..Len(data.array) :
        /\ data.array[i].minY <= y /\ y < data.array[i].maxY
        /\ InSpans(data.array[i].region.array, x)

\* The band invariants.
BandsOK(array) ==
    \A i \in 1..Len(array) :
        /\ Len(array[i].region.array) > 0
        /\ array[i].maxY > array[i].minY
        /\ i > 1 => /\ array[i].minY >= array[i - 1].maxY
                    /\ array[i].minY = array[i - 1].maxY
                         => array[i].region.array # array[i - 1].region.array

\* Two regions are the same set of points: the same bands with the same
\* minY, maxY and spans.
SameBand(band1, band2) ==
    /\ band1.minY = band2.minY /\ band1.maxY = band2.maxY
    /\ band1.region.array = band2.region.array

SameRegion(data1, data2) ==
    /\ Len(data1.array) = Len(data2.array)
    /\ \A i \in 1..Len(data1.array) : SameBand(data1.array[i], data2.array[i])

IsInfinite(data) ==
    data.minX = nInf \/ data.minY = nInf \/ data.maxX = pInf \/ data.maxY = pInf

\* C1: every Region2D produced by union, intersect, subtract, xor and not
\* from constructed regions satisfies the band invariants: non-empty
\* rowSets, maxY > minY, bands in ascending non-overlapping order, and no
\* two touching bands with equal rowSets.
C1_BandInvariants ==
    /\ BandsOK(ra.array) /\ BandsOK(rb.array)
    /\ BandsOK(res.array) /\ BandsOK(res2.array)

\* C1 witness: a union with a region of several bands produced fewer bands
\* than its receiver had, so touching bands with equal rowSets were merged.
C1_Witness ==
    /\ op = "union" /\ steps = 1
    /\ Len(ra.array) >= 2 /\ Len(rb.array) >= 1
    /\ Len(res.array) < Len(ra.array)

\* C2: union, intersect, subtract and xor compute their set-theoretic
\* meaning at every point (inclusive left/top, exclusive right/bottom).
C2_PointwiseMeaning2D ==
    \A x \in ProbeX, y \in ProbeY :
        LET inA == InRegion(ra, x, y)
            inB == InRegion(rb, x, y)
            inR == InRegion(res, x, y)
        IN  /\ op = "union"     => (inR <=> (inA \/ inB))
            /\ op = "intersect" => (inR <=> (inA /\ inB))
            /\ op = "subtract"  => (inR <=> (inA /\ ~inB))
            /\ op = "xor"       => (inR <=> (inA # inB))

\* C2 witness: an intersect of two overlapping regions, one of them with
\* several bands, that is neither empty nor one of its operands.
C2_Witness ==
    /\ op = "intersect" /\ steps = 1
    /\ Len(ra.array) >= 2
    /\ Len(res.array) >= 1
    /\ ~SameRegion(res, ra) /\ ~SameRegion(res, rb)

\* C5 (as claimed): isPointIn(x, y) is true iff some band has
\* minY <= y < maxY and a span with start <= x < end.
C5_IsPointInExact ==
    op = "isPointIn" => (ret = "true" <=> InRegion(ra, px, py))

\* C6 (as claimed): equals returns true iff the two regions have the same
\* bands, and returns false (without failing) otherwise.
C6_EqualsExact ==
    op = "equals" => ret = Bool(SameRegion(ra, rb))

\* C7 (as claimed): doesIntersect returns true iff the regions share a
\* point, false otherwise, and never fails.
C7_DoesIntersectExact ==
    op = "doesIntersect" =>
        ret = Bool(\E x \in ProbeX, y \in ProbeY :
                      InRegion(ra, x, y) /\ InRegion(rb, x, y))

\* C8: not() is the exact complement; empty.not() is the infinite region
\* and infinite.not() is empty.
C8_NotIsComplement ==
    op = "not" =>
        /\ \A x \in ProbeX, y \in ProbeY :
              InRegion(res, x, y) <=> ~InRegion(ra, x, y)
        /\ SameRegion(ra, empty) => SameRegion(res, infinite)
        /\ SameRegion(ra, infinite) => SameRegion(res, empty)

\* C8 witness: the complement of a region of several bands that reaches
\* infinity on one side only.
C8_Witness ==
    /\ op = "not" /\ steps = 1
    /\ Len(ra.array) >= 2 /\ ra.minY # nInf /\ ra.maxX = pInf
    /\ Len(res.array) >= 3

\* C9: De Morgan: a.union(b).not() equals a.not().intersect(b.not()).
C9_DeMorgan ==
    op = "demorgan" => SameRegion(res, res2)

\* C9 witness: De Morgan on an infinite and a finite region whose union is
\* not the whole plane.
C9_Witness ==
    /\ op = "demorgan"
    /\ IsInfinite(ra) /\ ~IsInfinite(rb) /\ Len(rb.array) >= 1
    /\ Len(res.array) >= 2 /\ Len(res2.array) >= 2

\* C10: a.not().not() equals a, for Region2D and for Region1D.
C10_NotNot ==
    /\ op = "notnot" => SameRegion(res, ra)
    /\ op1 = "notnot" => r1.array = a1.array

\* C10 witness: the double complement of a region of several bands.
C10_Witness ==
    /\ op = "notnot" /\ steps = 1
    /\ Len(ra.array) >= 2 /\ Len(res.array) >= 2


\* ------------------------------------------------------------------------
\* Algebraic laws of Region2D.  Two regions are equal when they have the
\* same bands (SameRegion).

\* C11: combining a region with itself: a.union(a) and a.intersect(a) equal
\* a, a.xor(a) and a.subtract(a) are empty.
C11_SelfCombination ==
    /\ op = "selfUnion"     => SameRegion(res, ra)
    /\ op = "selfIntersect" => SameRegion(res, ra)
    /\ op = "selfXor"       => SameRegion(res, empty)
    /\ op = "selfSubtract"  => SameRegion(res, empty)

\* C11 witness: an infinite region of several bands was subtracted from
\* itself.
C11_Witness ==
    /\ op = "selfSubtract" /\ steps = 1
    /\ Len(ra.array) >= 2 /\ IsInfinite(ra)
    /\ Len(res.array) = 0

\* C12: union, intersect and xor are commutative.
C12_Commutative ==
    op \in {"commuteUnion", "commuteIntersect", "commuteXor"}
        => SameRegion(res, res2)

\* C12 witness: an xor, in both orders, of two different overlapping
\* regions, one of them with several bands.
C12_Witness ==
    /\ op = "commuteXor" /\ steps = 1
    /\ Len(ra.array) >= 2 /\ Len(rb.array) >= 1
    /\ ~SameRegion(ra, rb)
    /\ doBoundsOverlap(ra, rb)
    /\ Len(res.array) >= 2

\* C13: empty is the identity of union and absorbing for intersect;
\* infinite is the identity of intersect and absorbing for union.
C13_EmptyInfinite ==
    /\ op = "unionEmpty"        => SameRegion(res, ra)
    /\ op = "intersectEmpty"    => SameRegion(res, empty)
    /\ op = "intersectInfinite" => SameRegion(res, ra)
    /\ op = "unionInfinite"     => SameRegion(res, infinite)

\* C13 witness: a region of several bands, neither empty nor infinite, was
\* intersected with Region2D.infinite.
C13_Witness ==
    /\ op = "intersectInfinite" /\ steps = 1
    /\ Len(ra.array) >= 2 /\ ~SameRegion(ra, infinite)
    /\ Len(res.array) >= 2

\* C14: Region2D.fromRects(a.getRects()) equals a.
C14_RectsRoundTrip ==
    op = "fromRects" => SameRegion(res, ra)

\* C14 witness: the round trip of a region of several bands with an
\* infinite rectangle and a band of two rectangles.
C14_Witness ==
    /\ op = "fromRects" /\ steps = 1
    /\ Len(ra.array) >= 2 /\ IsInfinite(ra)
    /\ \E i \in 1..Len(ra.array) : Len(ra.array[i].region.array) >= 4
    /\ Len(getRects(ra)) >= 3


\* ------------------------------------------------------------------------
\* Metadata, raw rows and transformations.

\* The least and the greatest element of a non-empty set of numbers.
Least(S) == CHOOSE v \in S : \A w \in S : v <= w
Greatest(S) == CHOOSE v \in S : \A w \in S : v >= w

\* The bounds and the count agree with the rectangles of the region.
MetadataAgrees(data, rects) ==
    /\ getCount2(data) = Len(rects)
    /\ IF Len(rects) = 0
       THEN /\ data.minX = pInf /\ data.minY = pInf
            /\ data.maxX = nInf /\ data.maxY = nInf
       ELSE /\ getBounds2(data).left =
                   Least({rects[i].left : i \in 1..Len(rects)})
            /\ getBounds2(data).top =
                   Least({rects[i].top : i \in 1..Len(rects)})
            /\ getBounds2(data).right =
                   Greatest({rects[i].right : i \in 1..Len(rects)})
            /\ getBounds2(data).bottom =
                   Greatest({rects[i].bottom : i \in 1..Len(rects)})

\* C17 (as claimed): for every region reachable by construction, CSG and
\* transform operations, getCount() is the number of rectangles getRects()
\* returns and getBounds() is the smallest rectangle containing them all
\* (the sentinel for the empty region).
C17_MetadataAgrees ==
    /\ MetadataAgrees(ra, getRects(ra))
    /\ MetadataAgrees(res, getRects(res))

\* C18 (as claimed): getRawRows() returns one entry per band, in band
\* order, each with the band's minY, maxY and rowSet.
C18_RawRowsPerBand ==
    op = "getRawRows" =>
        /\ ret = "none"
        /\ Len(arg) = Len(ra.array)
        /\ \A i \in 1..Len(ra.array) :
              /\ arg[i].minY = ra.array[i].minY
              /\ arg[i].maxY = ra.array[i].maxY
              /\ arg[i].region = ra.array[i].region

\* C19 (as claimed): fromRows fails whenever the rows violate a band
\* invariant, so every region it returns satisfies the band invariants.
C19_FromRowsValidates ==
    op = "fromRows" =>
        /\ ~BandsOK(arg) => ret # "none"
        /\ ret = "none" => BandsOK(res.array)

\* The scale factors and the offsets that must be rejected.
BadScale(v) == v = NaN \/ v = pInf \/ v = nInf \/ v <= 0
BadOffset(v) == v = NaN \/ v = pInf \/ v = nInf

\* C20 (as claimed): scale and transform fail when a scale factor is zero,
\* negative, infinite or NaN; translate and transform fail when an offset
\* is infinite or NaN; for Region1D and Region2D, the empty region included.
C20_TransformRejects ==
    /\ op = "scale" =>
          (BadScale(arg[1]) \/ BadScale(arg[2]) => ret # "none")
    /\ op = "translate" =>
          (BadOffset(arg[1]) \/ BadOffset(arg[2]) => ret # "none")
    /\ op = "transform" =>
          (BadScale(arg[1]) \/ BadScale(arg[2])
             \/ BadOffset(arg[3]) \/ BadOffset(arg[4]) => ret # "none")
    /\ op1 = "scale" => (BadScale(arg[1]) => ret # "none")
    /\ op1 = "translate" => (BadOffset(arg[1]) => ret # "none")
    /\ op1 = "transform" =>
          (BadScale(arg[1]) \/ BadOffset(arg[2]) => ret # "none")


\* ------------------------------------------------------------------------
\* Paths.

\* Twice the signed area of a polygon (shoelace sum), y growing downwards:
\* positive when the vertices are listed in clockwise order.
RECURSIVE Shoelace(_, _)
Shoelace(w, i) ==
    IF i > Len(w) THEN 0
    ELSE w[i].x * w[(i % Len(w)) + 1].y - w[(i % Len(w)) + 1].x * w[i].y
         + Shoelace(w, i + 1)

IsClockwise(w) == Shoelace(w, 1) > 0
IsCounterClockwise(w) == Shoelace(w, 1) < 0

\* The first vertex in reading order: of the topmost vertices the leftmost.
FirstVertex(w) ==
    w[CHOOSE i \in 1..Len(w) :
        \A j \in 1..Len(w) :
            w[i].y < w[j].y \/ (w[i].y = w[j].y /\ w[i].x <= w[j].x)]

\* A polygon is the boundary of a hole when the region does not cover the
\* points right below its first vertex, and an outer boundary when it does.
IsHole(data, w) == ~InRegion(data, FirstVertex(w).x, FirstVertex(w).y)

\* The region is one rectangle; it is a rectangle with one rectangular
\* hole: three bands, the middle one with two spans around the hole.
IsRectangle(data) ==
    Len(data.array) = 1 /\ Len(data.array[1].region.array) = 2
IsDonut(data) ==
    /\ Len(data.array) = 3
    /\ Len(data.array[2].region.array) = 4
    /\ data.array[1].maxY = data.array[2].minY
    /\ data.array[2].maxY = data.array[3].minY
    /\ data.array[1].region.array = data.array[3].region.array
    /\ data.array[1].region.array =
          <<data.array[2].region.array[1], data.array[2].region.array[4]>>

C15_NoObjectChanges ==
    [][/\ Len(heap'.bands) >= Len(heap.bands)
       /\ \A i \in 1..Len(heap.bands) : heap'.bands[i] = heap.bands[i]
       /\ heap'.infinite = heap.infinite]_vars

\* C15 witness: a union of a receiver of several bands merged two rows into
\* one band object, extending it in place, and left the bands of its
\* operands and of Region2D.infinite as they were.
C15_Witness ==
    /\ op = "union" /\ steps = 1
    /\ Len(heap.a) >= 2 /\ Len(heap.b) >= 1
    /\ Len(heap.r) >= 1 /\ Len(heap.r) < Len(heap.a)
    /\ deref(heap.bands, heap.a) = ra.array
    /\ deref(heap.bands, heap.b) = rb.array
    /\ deref(heap.bands, heap.infinite) = infinite.array

\* ------------------------------------------------------------------------
\* Point specification: isPointIn on Region1D of up to MaxLong + 3
\* coordinates, short enough for the linear scan and long enough for the
\* binary search.

\* Largest finite coordinate of the regions tested with isPointIn.
MaxLong == 8

LongArrays ==
    {q \in Ascending({nInf} \cup (0..MaxLong) \cup {pInf}) : validateData(q)}
Points == {nInf} \cup ((0 - 1)..(MaxLong + 1)) \cup {pInf}

InitI ==
    /\ a1 \in {newRegion1D(q) : q \in LongArrays}
    /\ b1 = empty1 /\ r1 = empty1 /\ op1 = "new" /\ n1 = 0
    /\ Idle2 /\ IdleQ

\* a.isPointIn(x)
IsPointIn1D ==
    /\ op1 = "new"
    /\ \E x \in Points :
          /\ px' = x
          /\ ret' = Bool(isPointIn1(a1, x))
    /\ op1' = "isPointIn"
    /\ UNCHANGED <<a1, b1, r1, n1, py, path, arg, heap, vars2>>

NextI == IsPointIn1D

SpecI == InitI /\ [][NextI]_vars

\* ------------------------------------------------------------------------
\* Row-pair specification: regions built by the constructor, union, subtract
\* and xor, then the band lists of two of them handed to the row-pair
\* generator.

\* The pairs the generator yields for the band lists of a and b.
GenerateRows2D ==
    /\ op \in {"new", "keep"}
    /\ arg' = rowPairs(ra.array, rb.array)
    /\ op' = "rowPairs"
    /\ UNCHANGED <<ra, rb, res, res2, steps, ret, px, py, path, heap, vars1>>

NextG ==
    \/ (op # "rowPairs" /\ Union2D)
    \/ (op # "rowPairs" /\ Subtract2D)
    \/ (op # "rowPairs" /\ Xor2D)
    \/ KeepAsA2D
    \/ KeepAsB2D
    \/ GenerateRows2D

SpecG == Init /\ [][NextG]_vars

\* ------------------------------------------------------------------------
\* Properties of the argument checks.

\* An array of even length whose entries are all numbers other than NaN in
\* strictly ascending order.
WellFormed1(input) ==
    /\ input.isArray
    /\ Len(input.items) % 2 = 0
    /\ \A i \in 1..Len(input.items) : input.items[i] \notin {NaN, NonNumber}
    /\ \A i \in 2..Len(input.items) : input.items[i - 1] < input.items[i]

\* C21: new Region1D(array) succeeds iff array is an array of even length
\* whose entries are all numbers, none of them NaN, in strictly ascending
\* order; otherwise it fails with an error and no region is constructed.
C21_ConstructorValidates ==
    op1 = "construct" =>
        /\ (ret = "none") <=> WellFormed1(arg)
        /\ ret # "none" => r1 = empty1

\* The rectangle has zero or negative width or height, or is an array that
\* does not have exactly four entries.
Rejected2(input) ==
    \/ input.form = "array" /\ Len(input.items) # 4
    \/ lessOrEqual(rectCoords(input)[3], rectCoords(input)[1])
    \/ lessOrEqual(rectCoords(input)[4], rectCoords(input)[2])

C23_ForeignArgumentFails ==
    /\ (op1 \in Methods1 /\ arg.other.type # "Region1D") =>
          (ret = "Type error" /\ arg.value = "none" /\ r1 = empty1)
    /\ (op \in Methods2 /\ arg.other.type # "Region2D") =>
          (ret = "Object must be a Region2D instance."
           /\ arg.value = "none" /\ res = empty)

C23_Witness ==
    /\ op1 = "relate" /\ arg.other.type = "Region2D"
    /\ Len(arg.other.r2.array) > 0 /\ Len(a1.array) > 0
    /\ ret = "Type error"

\* The points of the probe set a Region1D contains; the probe set holds a
\* point of every interval between two neighbouring coordinates.
Points1(r) == {x \in Probe1 : InSpans(r.array, x)}

\* The answer relate should give for two sets of points.
Relation(A, B) ==
    IF A = {} \/ B = {} THEN ""
    ELSE IF A = B THEN "equal"
    ELSE IF B \subseteq A THEN "a-contain-b"
    ELSE IF A \subseteq B THEN "b-contain-a"
    ELSE IF A \cap B # {} THEN "intersect"
    ELSE ""

\* C25: A.relate(B) is equal iff A and B are the same set, a-contain-b iff
\* B is a proper subset of A, b-contain-a iff A is a proper subset of B,
\* intersect iff they share a point and neither contains the other, and
\* the empty answer iff they share no point or one of them is empty.
C25_RelateIsRight ==
    (op1 = "relate" /\ arg.other.type = "Region1D") =>
        (ret = "none"
         /\ arg.value = Relation(Points1(a1), Points1(arg.other.r1)))

C25_Witness ==
    /\ op1 = "relate" /\ arg.other.type = "Region1D"
    /\ arg.value = "a-contain-b"
    /\ Len(a1.array) = 4 /\ Len(arg.other.r1.array) = 2

\* C24: A.isPointIn(x) is true iff A has a span [s, e) with s <= x < e,
\* for the regions of at most 8 entries (linear scan) and for the larger
\* ones (binary search), span starts and span ends included.
C24_PointInSpan ==
    op1 = "isPointIn" => ((ret = "true") <=> InSpans(a1.array, px))

C24_Witness ==
    /\ op1 = "isPointIn"
    /\ Len(a1.array) > 8
    /\ px = a1.array[8]
    /\ ret = "false"

\* C27: for every non-empty region getPath returns without error, having
\* consumed every generated edge exactly once: consumeEdge is called as
\* often as there are edges, every edge is marked used, and the list of
\* unconsumed edges is empty when the loop ends.
C27_EveryEdgeOnce ==
    (op = "getPath" /\ Len(ra.array) > 0) =>
        /\ ret = "none"
        /\ arg.edges > 0
        /\ arg.consumed = arg.edges
        /\ arg.used = 1..arg.edges
        /\ arg.firstEdge = 0

C27_Witness ==
    /\ op = "getPath" /\ ret = "none"
    /\ Len(path) = 2 /\ Len(ra.array) = 2
    /\ arg.edges = 8 /\ arg.consumed = 8

\* The rowSet of the band of a band list that holds y, the empty Region1D
\* when no band does.
RowAt(array, y) ==
    IF \E i \in 1..Len(array) : array[i].minY <= y /\ y < array[i].maxY
    THEN (CHOOSE band \in {array[i] : i \in 1..Len(array)} :
              band.minY <= y /\ y < band.maxY).region
    ELSE empty1

\* The slices of a list of row pairs that hold y.
SlicesAt(pairs, y) ==
    {i \in 1..Len(pairs) : pairs[i].minY <= y /\ y < pairs[i].maxY}

\* C26: the slices the row-pair generator yields have minY < maxY, ascend
\* without overlap, cover exactly the y of the bands of either input, and
\* each carries the rowSets active at its y in the two inputs (the empty
\* Region1D for an input without a band there).
C26_RowPairsCover ==
    op = "rowPairs" =>
        /\ \A i \in 1..Len(arg) : arg[i].minY < arg[i].maxY
        /\ \A i \in 2..Len(arg) : arg[i - 1].maxY <= arg[i].minY
        /\ \A y \in ProbeY :
              /\ (SlicesAt(arg, y) # {})
                    <=> (RowAt(ra.array, y) # empty1
                         \/ RowAt(rb.array, y) # empty1)
              /\ \A i \in SlicesAt(arg, y) :
                    /\ arg[i].row1 = RowAt(ra.array, y)
                    /\ arg[i].row2 = RowAt(rb.array, y)

C26_Witness ==
    /\ op = "rowPairs" /\ Len(arg) = 3
    /\ arg[1].row1 # empty1 /\ arg[1].row2 = empty1
    /\ arg[2].row1 # empty1 /\ arg[2].row2 # empty1
    /\ arg[3].row1 = empty1 /\ arg[3].row2 # empty1
    /\ Len(ra.array) = 1 /\ Len(rb.array) = 1

RowsOK(array) == \A i \in 1..Len(array) : SpansOK(array[i].region.array)

Transforms == {"scale", "translate", "transform"}

\* C29 (as claimed): every region returned by transform, translate or scale
\* of a valid region satisfies the invariants of its type: strictly
\* ascending spans for Region1D; for Region2D bands with maxY > minY, in
\* ascending non-overlapping order, no two touching bands with equal
\* rowSets, every rowSet valid.
C29_TransformedIsValid ==
    /\ (op1 \in Transforms /\ ret = "none") => SpansOK(r1.array)
    /\ (op \in Transforms /\ ret = "none"
          /\ BandsOK(ra.array) /\ RowsOK(ra.array))
         => (BandsOK(res.array) /\ RowsOK(res.array))

\* The 1-D half of C29, which holds: the constructor validates the
\* transformed array.
Transformed1DIsValid ==
    (op1 \in Transforms /\ ret = "none") => SpansOK(r1.array)

\* A translation that rounds two distinct coordinates to the same number
\* was rejected by the 1-D validation.
CollapseRejected1D ==
    /\ op1 = "translate" /\ arg = <<FirstInexact>>
    /\ a1.array = <<0, 1>> /\ ret = "Data error"

\* ------------------------------------------------------------------------
\* The equality specification: regions built by the constructor and by the
\* CSG operations, then built again by another route (scaled by one,
\* translated forth and back, from their own rows, from their own
\* rectangles, complemented twice), so that equal regions with different
\* histories meet in one state.

CSG == {"union", "intersect", "subtract", "xor", "not"}

\* What another route returned: the region, or the empty region when the
\* call failed.
Rebuilt(t) == IF t.error = "none" THEN t.data ELSE empty

\* r.scale(1, 1)
ScaleByOne2D ==
    /\ op \in CSG
    /\ res2' = Rebuilt(scale2(res, 1, 1)) /\ op' = "scaleByOne"
    /\ UNCHANGED <<ra, rb, res, steps, vars1, varsQ>>

\* r.translate(1, 1).translate(-1, -1)
TranslateBack2D ==
    /\ op \in CSG
    /\ res2' = Rebuilt(translate2(Rebuilt(translate2(res, 1, 1)),
                                  0 - 1, 0 - 1))
    /\ op' = "translateBack"
    /\ UNCHANGED <<ra, rb, res, steps, vars1, varsQ>>

\* Region2D.fromRows(rows) with the bands of r as rows
FromOwnRows2D ==
    /\ op \in CSG
    /\ res2' = Rebuilt(fromRows(res.array)) /\ op' = "fromOwnRows"
    /\ UNCHANGED <<ra, rb, res, steps, vars1, varsQ>>

\* Region2D.fromRects(r.getRects())
FromOwnRects2D ==
    /\ op \in CSG
    /\ \A i \in 1..Len(getRects(res)) : rectObjectIsValid(getRects(res)[i])
    /\ res2' = fromRects(getRects(res)) /\ op' = "fromOwnRects"
    /\ UNCHANGED <<ra, rb, res, steps, vars1, varsQ>>

\* a.scale(1)
ScaleByOne1D ==
    /\ op1 \in CSG \cup {"new", "keep"}
    /\ r1' = scale1(a1, 1).region /\ op1' = "scaleByOne"
    /\ UNCHANGED <<a1, b1, n1, vars2, varsQ>>

Built == CSG \cup {"new", "keep"}

NextE ==
    \/ (No1D /\ op \in Built /\ Union2D)
    \/ (No1D /\ op \in Built /\ Intersect2D)
    \/ (No1D /\ op \in Built /\ Subtract2D)
    \/ (No1D /\ op \in Built /\ Xor2D)
    \/ (No1D /\ op \in Built /\ Not2D)
    \/ (No1D /\ KeepAsA2D)
    \/ (No1D /\ KeepAsB2D)
    \/ (No1D /\ ScaleByOne2D)
    \/ (No1D /\ TranslateBack2D)
    \/ (No1D /\ FromOwnRows2D)
    \/ (No1D /\ FromOwnRects2D)
    \/ (No2D /\ op1 \in Built /\ Union1D)
    \/ (No2D /\ op1 \in Built /\ Xor1D)
    \/ (No2D /\ op1 \in Built /\ Subtract1D)
    \/ (No2D /\ op1 \in Built /\ NotNot1D)
    \/ (No2D /\ KeepAsA1D)
    \/ (No2D /\ ScaleByOne1D)

SpecE == (Init \/ Init1D) /\ [][NextE]_vars

\* A 32-bit integer.
IsInt32(h) == 0 - 2147483647 - 1 <= h /\ h <= 2147483647

\* C30: regions that are equal (the same spans; the same bands with the
\* same minY, maxY and spans) have equal hash codes, whatever operations
\* produced each of them, and every hash code is a 32-bit integer.
C30_EqualRegionsEqualHashes ==
    /\ \A x \in {ra, rb, res, res2} : \A y \in {ra, rb, res, res2} :
          SameRegion(x, y) => x.hash = y.hash
    /\ \A x \in {a1, b1, r1} : \A y \in {a1, b1, r1} :
          arrayEquals1(x.array, y.array) => x.hash = y.hash
    /\ \A x \in {ra, rb, res, res2} : IsInt32(x.hash)
    /\ \A x \in {a1, b1, r1} : IsInt32(x.hash)

\* C30 witness: a region of two or more bands made by a CSG operation and
\* the region made from its rows are equal and have the same, non-zero,
\* hash code.
C30_Witness ==
    /\ op = "fromOwnRows"
    /\ Len(res.array) >= 2 /\ SameRegion(res, res2)
    /\ res.hash = res2.hash /\ res.hash # 0

====
